---- MODULE Spec2Model ----
(***************************************************************************)
(* A model of DASTrie (include/dastrie.h): the builder of a static         *)
(* double-array trie, its serialised container, and the read-only trie     *)
(* with exact lookup and prefix cursors.                                   *)
(*                                                                         *)
(* C++ arrays and vectors are 0-indexed; they are modelled as sequences    *)
(* and read with At(v, i) == v[i + 1].  Memory is modelled as bytes        *)
(* (0..255) of a little-endian host: a double-array element is the tuple   *)
(* of the bytes it occupies, so that writing it out and viewing a block    *)
(* as elements are byte copies, as in the code.                            *)
(*                                                                         *)
(* The two element widths (doublearray4_traits, doublearray5_traits) are   *)
(* two template instantiations of the same code.  The model runs both      *)
(* instantiations side by side on the same records and the same queries:   *)
(* every variable that belongs to a builder or a trie is a function of     *)
(* the width w \in Traits.  The instantiations share no state.             *)
(***************************************************************************)
EXTENDS Integers, Sequences, FiniteSets, TLC

(***************************************************************************)
(* Bounds of the model.                                                    *)
(***************************************************************************)
\* The code's alphabet has 256 bytes; the model's character table covers
\* the bytes 0..NUMCHARS-1 only.
NUMCHARS == 4
\* Key and query bytes are drawn from 1..MaxKeyByte (0 is the terminator).
MaxKeyByte == 2
\* The longest key.
MaxKeyLen == 2
\* The longest query string handed to in, find and prefix.
MaxQueryLen == 3
\* The largest number of records handed to build().
MaxRecs == 3
\* The largest number of build() calls on one builder instance.
MaxBuilds == 2
\* The largest number of next() calls on one cursor.
MaxNext == 4
\* The number of threads that look keys up in one trie at the same time.
NumThreads == 2
\* The largest number of bytes in a stream before the container.
MaxLead == 1
\* How far from 0 and from max_base the base values and tail offsets lie
\* that the capacity tests of arrange are put to.
CapMargin == 6

(***************************************************************************)
(* Global constants (dastrie.h, enum at the top of the namespace).         *)
(***************************************************************************)
INVALID_INDEX == 0
INITIAL_INDEX == 1
CHUNKSIZE == 8
SDAT_CHUNKSIZE == 16
\* doublearray4_traits::max_base() and doublearray5_traits::max_base().
MaxBase4 == 8388607
MaxBase5 == 2147483647
\* sizeof(int), the width of the "int" value type in the tail.
SizeofInt == 4

Traits == {4, 5}
ValueTypes == {"int", "empty"}
\* std::sort leaves the order of bytes of equal frequency unspecified; the
\* sort is modelled as one of two fixed deterministic tie orders.
TieOrders == {"asc", "desc"}

(***************************************************************************)
(* Vectors and bytes.                                                      *)
(***************************************************************************)
At(v, i) == v[i + 1]

\* A local variable: F applied to the value v that the variable holds.
Bind(v, F(_)) == F(v)

Put(v, i, x) == [v EXCEPT ![i + 1] = x]

\* std::vector::resize(n, d): truncates, or appends copies of d.
Resize(v, n, d) ==
    IF n <= Len(v) THEN SubSeq(v, 1, n)
    ELSE v \o [k \in 1..(n - Len(v)) |-> d]

\* Byte k of the two's-complement representation of v (little endian).
ByteOf(v, k) == (v \div (256 ^ k)) % 256

\* The four bytes of a 32-bit integer in memory.
Int32Bytes(v) == <<ByteOf(v, 0), ByteOf(v, 1), ByteOf(v, 2), ByteOf(v, 3)>>

\* The signed 32-bit integer held by four bytes b[1..4].
Int32Of(b) ==
    b[1] + 256 * b[2] + 65536 * b[3]
      + 16777216 * (IF b[4] >= 128 THEN b[4] - 256 ELSE b[4])

\* The bytes of a block from offset `from`, `n` of them.
Slice(block, from, n) == SubSeq(block, from + 1, from + n)

(***************************************************************************)
(* doublearray4_traits: element = int32_t, CHECK in the low byte and BASE  *)
(* in the upper 24 bits.                                                   *)
(***************************************************************************)
doublearray4_default_value == <<0, 0, 0, 0>>

\* A get_base that shifts logically: the sign of BASE is lost.
doublearray4_get_base_unsigned(elem) ==
    elem[2] + 256 * elem[3] + 65536 * elem[4]

\* elem >> 8, an arithmetic shift: the upper three bytes, sign-extended.
doublearray4_get_base(elem) ==
    elem[2] + 256 * elem[3]
      + 65536 * (IF elem[4] >= 128 THEN elem[4] - 256 ELSE elem[4])

doublearray4_get_check(elem) == elem[1]

\* elem = (elem & 0x000000FF) | (v << 8)
doublearray4_set_base(elem, v) ==
    <<elem[1], ByteOf(v, 0), ByteOf(v, 1), ByteOf(v, 2)>>

\* A variant with the mask 0xFFFF0000, which clears the low byte of BASE.
doublearray4_set_check_wide_mask(elem, v) == <<v, 0, elem[3], elem[4]>>

\* elem = (elem & 0xFFFFFF00) | v
doublearray4_set_check(elem, v) == <<v, elem[2], elem[3], elem[4]>>

(***************************************************************************)
(* doublearray5_traits: element = uint8_t v[5], BASE in v[0:4] (memcpy of  *)
(* an int32_t) and CHECK in v[4].                                          *)
(***************************************************************************)
doublearray5_default_value == <<0, 0, 0, 0, 0>>

doublearray5_get_base(elem) == Int32Of(SubSeq(elem, 1, 4))

doublearray5_get_check(elem) == elem[5]

doublearray5_set_base(elem, v) == Int32Bytes(v) \o <<elem[5]>>

doublearray5_set_check(elem, v) == [elem EXCEPT ![5] = v]

(***************************************************************************)
(* The traits of the instantiation of width w.                             *)
(***************************************************************************)
max_base(w) == IF w = 4 THEN MaxBase4 ELSE MaxBase5

default_value(w) ==
    IF w = 4 THEN doublearray4_default_value ELSE doublearray5_default_value

traits_get_base(w, elem) ==
    IF w = 4 THEN doublearray4_get_base(elem) ELSE doublearray5_get_base(elem)

traits_get_check(w, elem) ==
    IF w = 4 THEN doublearray4_get_check(elem) ELSE doublearray5_get_check(elem)

traits_set_base(w, elem, v) ==
    IF w = 4 THEN doublearray4_set_base(elem, v)
    ELSE doublearray5_set_base(elem, v)

traits_set_check(w, elem, v) ==
    IF w = 4 THEN doublearray4_set_check(elem, v)
    ELSE doublearray5_set_check(elem, v)

\* sizeof(element_type)
sizeof_element(w) == w

(***************************************************************************)
(* Keys are C strings: a sequence of non-zero bytes followed by 0.         *)
(***************************************************************************)
\* str[p], for p up to the terminator.
CharAt(str, p) == IF p < Len(str) THEN str[p + 1] ELSE 0

\* The C string str + p.
Suffix(str, p) == SubSeq(str, p + 1, Len(str))

(***************************************************************************)
(* otail: the writer of the tail array.                                    *)
(***************************************************************************)
\* otail::write_string(str, offset): the bytes of str from offset and the
\* terminator.
otail_write_string(cont, str, offset) == cont \o Suffix(str, offset) \o <<0>>

\* operator<< of the value type: sizeof(int) bytes of an int, nothing of an
\* empty_type.
otail_write_value(cont, vt, value) ==
    IF vt = "int" THEN cont \o Int32Bytes(value) ELSE cont

(***************************************************************************)
(* builder: the state of one builder instance is a record                  *)
(*   da          m_da, the double array (a vector of elements)             *)
(*   tail        m_tail, the bytes of the tail array                       *)
(*   table       m_table, the character table (<<>> before the first       *)
(*               build(): the constructor leaves it uninitialised)         *)
(*   used_bases  m_used_bases, a vector of booleans                        *)
(*   elink       m_elink, the doubly linked list of vacant elements        *)
(*   i, n        m_i and m_n, the progress counter and the record count    *)
(*               (no callback is set, so arrange leaves m_i alone)         *)
(*   stat        the counters of m_stat that arrange maintains             *)
(*   exc         the message of the exception that ended the last build(), *)
(*               "" if it returned normally                                *)
(*   hist        the history of the last build(), which the code does not  *)
(*               keep: the depth of the recursion of arrange and the       *)
(*               largest depth so far, and for every search for a base     *)
(*               address the position p, the double array and the vacant   *)
(*               list when the search began, the offsets of the child      *)
(*               nodes, the indices that the search tried and the base     *)
(*               that it found                                             *)
(***************************************************************************)
ExcLeaves == "The double array has no space to store leaves"
ExcUnsorted == "The records are not sorted in dictionary order of keys"
ExcChildren == "The double array has no space to store child nodes"
ExcDuplicated == "Duplicated keys detected"

dlink_element == [prev |-> 0, next |-> 0]

ZeroStat == [da_num_nodes |-> 0, da_num_leaves |-> 0, bt_sum_base_trials |-> 0]

NoHist == [depth |-> 0, max_depth |-> 0, searches |-> <<>>]

\* builder::builder(): every container is empty.
NewBuilder ==
    [da |-> <<>>, tail |-> <<>>, table |-> <<>>, used_bases |-> <<>>,
     elink |-> <<>>, i |-> 0, n |-> 0, stat |-> ZeroStat, exc |-> "",
     hist |-> NoHist]

\* A call of arrange begins: the recursion is one level deeper.
hist_enter(st) ==
    [st EXCEPT !.hist.depth = @ + 1,
               !.hist.max_depth =
                   IF @ < st.hist.depth + 1 THEN st.hist.depth + 1 ELSE @]

\* A call of arrange with the result r returns (a call that throws leaves
\* the history as it is at the throw).
hist_leave(r) ==
    IF r.st.exc # "" THEN r ELSE [r EXCEPT !.st.hist.depth = @ - 1]

\* arrange at position p begins to search a base for child nodes.
hist_search(st, p, children) ==
    [st EXCEPT !.hist.searches =
        Append(@, [p |-> p, da |-> st.da, elink |-> st.elink,
                   offsets |-> [k \in 1..Len(children) |->
                                   children[k].offset],
                   trials |-> <<>>, base |-> 0])]

\* The search that is under way tries the index `index`.
hist_trial(st, index) ==
    [st EXCEPT !.hist.searches[Len(st.hist.searches)].trials =
        Append(@, index)]

\* The search that is under way ends with the base `base`.
hist_found(st, base) ==
    [st EXCEPT !.hist.searches[Len(st.hist.searches)].base = base]

builder_get_base(w, st, i) == traits_get_base(w, At(st.da, i))

builder_set_base(w, st, i, v) ==
    [st EXCEPT !.da = Put(@, i, traits_set_base(w, At(@, i), v))]

builder_set_check(w, st, i, v) ==
    [st EXCEPT !.da = Put(@, i, traits_set_check(w, At(@, i), v))]

da_in_use(w, st, i) == i < Len(st.da) /\ builder_get_base(w, st, i) # 0

da_expand(w, st, size) ==
    IF Len(st.da) < size
    THEN [st EXCEPT !.da = Resize(@, size, default_value(w))]
    ELSE st

vlist_init(st) ==
    [st EXCEPT !.elink =
        Put(Resize(@, 1, dlink_element), 0, [prev |-> 0, next |-> 1])]

vlist_next(st, i) == IF i < Len(st.elink) THEN At(st.elink, i).next ELSE i + 1

RECURSIVE vlist_link(_, _, _)
\* The loop of vlist_expand: links the elements i.. to the end of the list.
vlist_link(elink, i, back) ==
    IF i >= Len(elink) THEN elink
    ELSE vlist_link(Put(elink, i, [prev |-> back, next |-> i + 1]), i + 1, i)

vlist_expand(st, size) ==
    IF Len(st.elink) < size
    THEN Bind(Resize(st.elink, size, dlink_element), LAMBDA grown :
         Bind(vlist_link(grown, Len(st.elink), At(grown, 0).prev),
              LAMBDA linked :
         [st EXCEPT !.elink =
             Put(linked, 0, [At(linked, 0) EXCEPT !.prev = size - 1])]))
    ELSE st

\* A variant of the unlinking that leaves the prev link of `next` alone.
vlist_unlink_forward(elink, prev, next) ==
    Put(elink, prev, [At(elink, prev) EXCEPT !.next = next])

\* The tail of vlist_use: unlinks the element between prev and next.
vlist_unlink(elink, prev, next) ==
    Bind(Put(elink, prev, [At(elink, prev) EXCEPT !.next = next]),
         LAMBDA e : Put(e, next, [At(e, next) EXCEPT !.prev = prev]))

\* The head of vlist_use: a vacant list that ends at the element `next`
\* beyond the array grows by that element.
vlist_grow(elink, next) ==
    IF Len(elink) <= next
    THEN Bind(Resize(elink, next + 1, dlink_element), LAMBDA g :
         Bind(Put(g, next, [At(g, next) EXCEPT !.next = next + 1]), LAMBDA g1 :
         Put(g1, 0, [At(g1, 0) EXCEPT !.prev = next])))
    ELSE elink

vlist_use(st, i) ==
    [st EXCEPT !.elink =
        vlist_unlink(vlist_grow(@, At(@, i).next),
                     At(@, i).prev, At(@, i).next)]

(***************************************************************************)
(* builder::build_table: byte frequencies (one 0x00 per record), sorted    *)
(* by descending frequency with comp_freq; table[c] is the rank of c.      *)
(***************************************************************************)
Freq(recs, c) ==
    Cardinality({ij \in (1..Len(recs)) \X (1..MaxKeyLen + 1) :
                    /\ ij[2] <= Len(recs[ij[1]].key)
                    /\ recs[ij[1]].key[ij[2]] = c})
      + (IF c = 0 THEN Len(recs) ELSE 0)

\* comp_freq orders by frequency alone; `tie` is the order std::sort leaves
\* bytes of equal frequency in.
SortsBefore(recs, tie, d, c) ==
    \/ Freq(recs, d) > Freq(recs, c)
    \/ /\ Freq(recs, d) = Freq(recs, c)
       /\ IF tie = "asc" THEN d < c ELSE d > c

build_table(recs, tie) ==
    [k \in 1..NUMCHARS |->
        Cardinality({d \in 0..(NUMCHARS - 1) : SortsBefore(recs, tie, d, k - 1)})]

\* The test of arrange before it writes a leaf whose key postfix begins at
\* `offset` of the tail: the offset does not fit into a base value.
leaf_overflows(w, offset) == max_base(w) < offset

\* A capacity test for child nodes that lets the largest child index be
\* max_base.
children_overflow_late(w, base, max_offset) == max_base(w) < base + max_offset

\* The test of arrange after it has found the base address for child nodes
\* with offsets up to max_offset: the double array cannot store them.
children_overflow(w, base, max_offset) == max_base(w) <= base + max_offset

(***************************************************************************)
(* builder::arrange.  Records are addressed by their 0-based position in   *)
(* recs; [first, last) is the range of the call.  The result is            *)
(* [st, ret]: the builder state after the call and the returned BASE; a    *)
(* non-empty st.exc says the call threw, and st is the state at the throw. *)
(***************************************************************************)
Throw(st, msg) == [st |-> [st EXCEPT !.exc = msg], ret |-> 0]

\* A test of the order of two bytes that rejects equal bytes as well.
out_of_order_or_equal(c, pc) == c <= pc

\* A test of the order of two bytes with the operands swapped: where the
\* loop below uses it, pc < c is known to be false.
out_of_order_swapped(c, pc) == pc < c

\* The test "c < pc" of the loop below: the byte c of a record is smaller
\* than the byte pc of the record before it.
out_of_order(c, pc) == c < pc

RECURSIVE group_children(_, _, _, _, _, _, _)
\* The loop that lists the child nodes of the current node (the bytes
\* key[p] of the records and the range of records under each).
group_children(recs, table, p, it, last, pc, children) ==
    LET num == Len(children) IN
    IF it = last
    THEN [children |-> [children EXCEPT ![num].last = it], exc |-> ""]
    ELSE LET c == CharAt(recs[it + 1].key, p) IN
         IF pc < c
         THEN LET closed == IF 0 < num
                            THEN [children EXCEPT ![num].last = it]
                            ELSE children
                  child == [c |-> c, offset |-> At(table, c) + 1,
                            first |-> it, last |-> it]
              IN group_children(recs, table, p, it + 1, last, c,
                                Append(closed, child))
         ELSE IF out_of_order(c, pc)
         THEN [children |-> children, exc |-> ExcUnsorted]
         ELSE group_children(recs, table, p, it + 1, last, c, children)

MaxOffset(children) ==
    CHOOSE m \in {children[k].offset : k \in 1..Len(children)} :
        \A k \in 1..Len(children) : children[k].offset <= m

RECURSIVE find_base_any_base(_, _, _, _, _)
\* A variant of the search that does not test m_used_bases.
find_base_any_base(w, st, children, max_offset, index0) ==
    Bind(vlist_next(st, index0), LAMBDA index :
    Bind(hist_trial([st EXCEPT !.stat.bt_sum_base_trials = @ + 1], index),
         LAMBDA st1 :
    Bind(index - children[1].offset, LAMBDA base :
    IF index < INITIAL_INDEX + children[1].offset
    THEN find_base_any_base(w, st1, children, max_offset, index)
    ELSE Bind(vlist_expand(da_expand(w, st1, base + max_offset + 1),
                           base + max_offset + 1), LAMBDA st2 :
         IF \E k \in 2..Len(children) :
               da_in_use(w, st2, base + children[k].offset)
         THEN find_base_any_base(w, st2, children, max_offset, index)
         ELSE [st |-> hist_found(st2, base), base |-> base]))))

RECURSIVE find_base_from_zero(_, _, _, _, _)
\* A variant of the search whose test for an index that is too small
\* lets the base 0 pass.
find_base_from_zero(w, st, children, max_offset, index0) ==
    Bind(vlist_next(st, index0), LAMBDA index :
    Bind(hist_trial([st EXCEPT !.stat.bt_sum_base_trials = @ + 1], index),
         LAMBDA st1 :
    Bind(index - children[1].offset, LAMBDA base :
    IF index < children[1].offset
    THEN find_base_from_zero(w, st1, children, max_offset, index)
    ELSE IF base < Len(st1.used_bases) /\ At(st1.used_bases, base)
    THEN find_base_from_zero(w, st1, children, max_offset, index)
    ELSE Bind(vlist_expand(da_expand(w, st1, base + max_offset + 1),
                           base + max_offset + 1), LAMBDA st2 :
         IF \E k \in 2..Len(children) :
               da_in_use(w, st2, base + children[k].offset)
         THEN find_base_from_zero(w, st2, children, max_offset, index)
         ELSE [st |-> hist_found(st2, base), base |-> base]))))

RECURSIVE find_base(_, _, _, _, _)
\* The loop that finds the minimum base address that can store every
\* child; the result is [st, base].
find_base(w, st, children, max_offset, index0) ==
    Bind(vlist_next(st, index0), LAMBDA index :
    Bind(hist_trial([st EXCEPT !.stat.bt_sum_base_trials = @ + 1], index),
         LAMBDA st1 :
    Bind(index - children[1].offset, LAMBDA base :
    IF index < INITIAL_INDEX + children[1].offset
    THEN find_base(w, st1, children, max_offset, index)
    ELSE IF base < Len(st1.used_bases) /\ At(st1.used_bases, base)
    THEN find_base(w, st1, children, max_offset, index)
    ELSE Bind(vlist_expand(da_expand(w, st1, base + max_offset + 1),
                           base + max_offset + 1), LAMBDA st2 :
         IF \E k \in 2..Len(children) :
               da_in_use(w, st2, base + children[k].offset)
         THEN find_base(w, st2, children, max_offset, index)
         ELSE [st |-> hist_found(st2, base), base |-> base]))))

\* Registers the usage of the base address.
use_base(st, base) ==
    [st EXCEPT !.used_bases =
        Put(IF Len(@) <= base THEN Resize(@, base + 1, FALSE) ELSE @,
            base, TRUE)]

RECURSIVE reserve_children(_, _, _, _, _)
\* Fills BASE = 1 tentatively into the elements of the child nodes.
reserve_children(w, st, children, k, base) ==
    IF k > Len(children) THEN st
    ELSE reserve_children(w,
            vlist_use(builder_set_base(w, st, base + children[k].offset, 1),
                      base + children[k].offset),
            children, k + 1, base)

RECURSIVE arrange(_, _, _, _, _, _, _)
RECURSIVE arrange_children(_, _, _, _, _, _, _, _)

\* The loop that sets BASE and CHECK of each child node, recursively
\* arranging the descendants.
arrange_children(w, vt, recs, st, p, children, k, base) ==
    IF k > Len(children) THEN [st |-> st, ret |-> base]
    ELSE Bind(children[k], LAMBDA child :
         IF child.c = 0 /\ child.first + 1 # child.last
         THEN Throw(st, ExcDuplicated)
         ELSE Bind(hist_leave(arrange(w, vt, recs, hist_enter(st),
                                      IF child.c # 0 THEN p + 1 ELSE p,
                                      child.first, child.last)), LAMBDA r :
              IF r.st.exc # "" THEN r
              ELSE arrange_children(w, vt, recs,
                      builder_set_check(w,
                          builder_set_base(w, r.st, base + child.offset,
                                           r.ret),
                          base + child.offset, (child.offset - 1) % 256),
                      p, children, k + 1, base)))

arrange(w, vt, recs, st, p, first, last) ==
    IF first + 1 = last
    THEN Bind(recs[first + 1], LAMBDA rec :
         Bind(Len(st.tail), LAMBDA offset :
         IF leaf_overflows(w, offset)
         THEN Throw(st, ExcLeaves)
         ELSE [st |-> [st EXCEPT
                         !.tail = otail_write_value(
                                     otail_write_string(@, rec.key, p),
                                     vt, rec.value),
                         !.stat.da_num_leaves = @ + 1],
               ret |-> -offset]))
    ELSE Bind(group_children(recs, st.table, p, first, last, -1, <<>>),
              LAMBDA g :
         IF g.exc # "" THEN Throw(st, g.exc)
         ELSE Bind(MaxOffset(g.children), LAMBDA max_offset :
              Bind(find_base(w, hist_search(st, p, g.children), g.children,
                             max_offset, 0), LAMBDA f :
              IF children_overflow(w, f.base, max_offset)
              THEN Throw(f.st, ExcChildren)
              ELSE Bind(arrange_children(w, vt, recs,
                           reserve_children(w, use_base(f.st, f.base),
                                            g.children, 1, f.base),
                           p, g.children, 1, f.base), LAMBDA r :
                   IF r.st.exc # "" THEN r
                   ELSE [st |-> [r.st EXCEPT !.stat.da_num_nodes = @ + 1],
                         ret |-> f.base]))))

\* builder::clear(): the character table, the double array, the tail array,
\* the vacant list and the statistics are initialised.  otail has no
\* operator<< for uint8_t: "m_tail << (uint8_t)0" promotes the byte and
\* calls operator<<(int), which writes sizeof(int) zero bytes.
builder_clear(w, st) ==
    vlist_init([st EXCEPT
        !.table = [k \in 1..NUMCHARS |-> k - 1],
        !.da = <<default_value(w)>>,
        !.tail = otail_write_value(<<>>, "int", 0),
        !.stat = ZeroStat])

\* builder::build(first, last) over the records recs.
builder_build(w, vt, tie, recs, st) ==
    Bind([builder_clear(w, st) EXCEPT
             !.i = 0, !.n = Len(recs), !.exc = "", !.hist = NoHist,
             !.table = build_table(recs, tie)], LAMBDA s0 :
    Bind(vlist_expand(da_expand(w, s0, INITIAL_INDEX + 1), INITIAL_INDEX + 1),
         LAMBDA s1 :
    Bind(vlist_use(builder_set_base(w, s1, INITIAL_INDEX, 1), INITIAL_INDEX),
         LAMBDA s2 :
    Bind(hist_leave(arrange(w, vt, recs, hist_enter(s2), 0, 0, Len(recs))),
         LAMBDA r :
    IF r.st.exc # "" THEN r.st
    ELSE builder_set_base(w, r.st, INITIAL_INDEX, r.ret)))))

(***************************************************************************)
(* builder::write: the SDAT container.                                     *)
(***************************************************************************)
ID_SDAT == <<83, 68, 65, 84>>
ID_TBLU == <<84, 66, 76, 85>>
ID_TAIL == <<84, 65, 73, 76>>
ID_SDA4 == <<83, 68, 65, 52>>
ID_SDA5 == <<83, 68, 65, 53>>

chunk_id_bytes(w) == IF w = 4 THEN ID_SDA4 ELSE ID_SDA5

write_uint32(value) == Int32Bytes(value)

write_chunk(chunk, size) == chunk \o write_uint32(size)

RECURSIVE Flatten(_)
\* The memory of a vector of elements: the bytes of its elements in order.
Flatten(v) == IF v = <<>> THEN <<>> ELSE Head(v) \o Flatten(Tail(v))

builder_write(w, st) ==
    LET sda_size == CHUNKSIZE + sizeof_element(w) * Len(st.da)
        tblu_size == CHUNKSIZE + NUMCHARS
        tail_size == CHUNKSIZE + Len(st.tail)
        total_size == SDAT_CHUNKSIZE + tblu_size + sda_size + tail_size
    IN write_chunk(ID_SDAT, total_size)
         \o write_uint32(SDAT_CHUNKSIZE)
         \o write_uint32(st.n)
         \o write_chunk(ID_TBLU, tblu_size) \o st.table
         \o write_chunk(chunk_id_bytes(w), sda_size) \o Flatten(st.da)
         \o write_chunk(ID_TAIL, tail_size) \o st.tail

(***************************************************************************)
(* trie: the state of one trie instance is a record                        *)
(*   table   m_table                                                       *)
(*   da      m_da: [alloc, elems]; alloc says m_block of the array is not  *)
(*           NULL, elems are the elements it points to                     *)
(*   tail    m_tail.m_cont: [alloc, elems], likewise, elems being bytes    *)
(*   offset  m_tail.m_offset, the read position of the tail                *)
(*   n       m_n, the number of records; the constructor does not          *)
(*           initialise it, Indeterminate stands for its unknown value     *)
(***************************************************************************)
Indeterminate == 0 - 1

NullArray == [alloc |-> FALSE, elems |-> <<>>]

\* trie::trie(): the identity character table, no arrays.
NewTrie ==
    [table |-> [k \in 1..NUMCHARS |-> k - 1],
     da |-> NullArray, tail |-> NullArray, offset |-> 0, n |-> Indeterminate]

trie_get_base(w, t, i) == traits_get_base(w, At(t.da.elems, i))

trie_get_check(w, t, i) == traits_get_check(w, At(t.da.elems, i))

\* trie::size(): m_n, whatever it holds.
trie_size(t) == t.n

\* trie::assign(da, tail, table): copies of the builder's arrays.
trie_assign_builder(t, st) ==
    [t EXCEPT !.da = [alloc |-> TRUE, elems |-> st.da],
              !.tail = [alloc |-> TRUE, elems |-> st.tail],
              !.table = st.table]

(***************************************************************************)
(* itail: the reader of the tail array, at the read position t.offset.     *)
(***************************************************************************)
itail_seekg(t, offset) ==
    IF offset < Len(t.tail.elems) THEN [t EXCEPT !.offset = offset] ELSE t

RECURSIVE CStrLen(_, _)
\* std::strlen of the bytes of cont from offset.
CStrLen(cont, offset) ==
    IF offset >= Len(cont) \/ At(cont, offset) = 0 THEN 0
    ELSE 1 + CStrLen(cont, offset + 1)

itail_strlen(t) == CStrLen(t.tail.elems, t.offset)

\* std::memcmp(&m_cont[m_offset], str, length) == 0, str a C string.
MemEqual(t, str, length) ==
    \A k \in 0..(length - 1) :
        At(t.tail.elems, t.offset + k) = CharAt(str, k)

itail_match_string(t, str) ==
    LET length == Len(str) + 1 IN
    /\ t.offset + length < Len(t.tail.elems)
    /\ MemEqual(t, str, length)

itail_match_string_partial(t, str) ==
    LET length == itail_strlen(t) IN
    /\ t.offset + length + 1 < Len(t.tail.elems)
    /\ MemEqual(t, str, length)
    /\ At(t.tail.elems, t.offset + length) = 0

\* operator>> of the value type into `value`: [t, value].  An int is read
\* only if sizeof(int) bytes remain; an empty_type reads nothing.
itail_read_value(t, vt, value) ==
    IF vt = "int" /\ t.offset + SizeofInt <= Len(t.tail.elems)
    THEN [t |-> [t EXCEPT !.offset = @ + SizeofInt],
          value |-> Int32Of(Slice(t.tail.elems, t.offset, SizeofInt))]
    ELSE [t |-> t, value |-> value]

(***************************************************************************)
(* trie::descend, trie::locate, trie::in, trie::find.                      *)
(***************************************************************************)
\* A descend that does not test the backward link.
descend_unchecked(w, t, i, c) ==
    Bind(trie_get_base(w, t, i), LAMBDA base :
    Bind(At(t.table, c), LAMBDA check :
    Bind(base + check + 1, LAMBDA next :
    IF base <= 0 THEN INVALID_INDEX
    ELSE IF Len(t.da.elems) <= next THEN INVALID_INDEX
    ELSE next)))

descend(w, t, i, c) ==
    Bind(trie_get_base(w, t, i), LAMBDA base :
    Bind(At(t.table, c), LAMBDA check :
    Bind(base + check + 1, LAMBDA next :
    IF base <= 0 THEN INVALID_INDEX
    ELSE IF Len(t.da.elems) <= next THEN INVALID_INDEX
    ELSE IF trie_get_check(w, t, next) # check THEN INVALID_INDEX
    ELSE next)))

RECURSIVE locate_loop(_, _, _, _, _)
\* The descent loop of locate from the node cur on key[p..]: [found, p,
\* offset], found = FALSE for the two "return false" exits.
locate_loop(w, t, key, p, cur0) ==
    Bind(descend(w, t, cur0, CharAt(key, p)), LAMBDA cur :
    IF cur = INVALID_INDEX THEN [found |-> FALSE, p |-> p, offset |-> 0]
    ELSE Bind(trie_get_base(w, t, cur), LAMBDA base :
         IF base < 0
         THEN [found |-> TRUE,
               p |-> IF CharAt(key, p) # 0 THEN p + 1 ELSE p,
               offset |-> -base]
         ELSE IF CharAt(key, p) = 0
         THEN [found |-> FALSE, p |-> p, offset |-> 0]
         ELSE locate_loop(w, t, key, p + 1, cur)))

\* trie::locate(key): [t, ret], ret the offset of the value or 0.
locate(w, t, key) ==
    Bind(locate_loop(w, t, key, 0, INITIAL_INDEX), LAMBDA d :
    IF ~d.found THEN [t |-> t, ret |-> 0]
    ELSE Bind(itail_seekg(t, d.offset), LAMBDA t1 :
         IF itail_match_string(t1, Suffix(key, d.p))
         THEN [t |-> t1, ret |-> d.offset + itail_strlen(t1) + 1]
         ELSE [t |-> t1, ret |-> 0]))

\* trie::in(key): [t, ret].
trie_in(w, t, key) ==
    Bind(locate(w, t, key), LAMBDA l : [t |-> l.t, ret |-> l.ret # 0])

\* trie::find(key, value): [t, ret, value].
trie_find(w, vt, t, key, value) ==
    Bind(locate(w, t, key), LAMBDA l :
    IF l.ret # 0
    THEN Bind(itail_read_value(itail_seekg(l.t, l.ret), vt, value), LAMBDA r :
         [t |-> r.t, ret |-> TRUE, value |-> r.value])
    ELSE [t |-> l.t, ret |-> FALSE, value |-> value])

(***************************************************************************)
(* trie::prefix_cursor and trie::next_prefix.  A cursor is a record        *)
(* [query, length, value, cur].                                            *)
(***************************************************************************)
\* prefix_cursor(t, q), as trie::prefix(q) constructs its result; the
\* value is not initialised.
prefix_cursor(q) ==
    [query |-> q, length |-> 0, value |-> Indeterminate, cur |-> INITIAL_INDEX]

\* prefix_cursor(const prefix_cursor& rho): m_trie, query, cur and value
\* are assigned from the source; `length` has no initialiser and is not
\* assigned, so it holds the indeterminate value `length` of its storage.
prefix_cursor_copy(source, length) == [source EXCEPT !.length = length]

RECURSIVE next_prefix_loop(_, _, _, _)
\* The descent loop of next_prefix: [exit, t, pfx, offset], where exit is
\* "false" or "true" (the function returned inside the loop), "throw" (it
\* threw) or "leaf" (the loop was left by break, at a leaf).
next_prefix_loop(w, vt, t, pfx0) ==
    Bind(CharAt(pfx0.query, pfx0.length), LAMBDA c :
    Bind([pfx0 EXCEPT !.cur = descend(w, t, pfx0.cur, c)], LAMBDA pfx :
    IF pfx.cur = INVALID_INDEX
    THEN [exit |-> "false", t |-> t, pfx |-> pfx, offset |-> 0]
    ELSE Bind(trie_get_base(w, t, pfx.cur), LAMBDA base :
    IF base < 0
    THEN [exit |-> "leaf", t |-> t,
          pfx |-> IF c # 0 THEN [pfx EXCEPT !.length = @ + 1] ELSE pfx,
          offset |-> -base]
    ELSE Bind(descend(w, t, pfx.cur, 0), LAMBDA cur :
         Bind(IF cur # INVALID_INDEX THEN trie_get_base(w, t, cur) ELSE 0,
              LAMBDA nbase :
         IF cur # INVALID_INDEX /\ nbase # 0
         THEN IF 0 <= nbase
              THEN [exit |-> "throw", t |-> t, pfx |-> pfx, offset |-> 0]
              ELSE Bind(itail_seekg(t, -nbase), LAMBDA t1 :
                   IF itail_strlen(t1) # 0
                   THEN [exit |-> "throw", t |-> t1, pfx |-> pfx,
                         offset |-> 0]
                   ELSE Bind(itail_read_value(itail_seekg(t1, (-nbase) + 1),
                                              vt, pfx.value), LAMBDA r :
                        [exit |-> "true", t |-> r.t,
                         pfx |-> [pfx EXCEPT !.length = @ + 1,
                                             !.value = r.value],
                         offset |-> 0]))
         ELSE IF c = 0
         THEN [exit |-> "false", t |-> t, pfx |-> pfx, offset |-> 0]
         ELSE next_prefix_loop(w, vt, t, [pfx EXCEPT !.length = @ + 1]))))))

\* trie::next_prefix(pfx): [ret, exc, t, pfx]; exc says it threw.
\* A test that lets the cursor read the terminator of the query.
query_exhausted_late(pfx) == Len(pfx.query) < pfx.length

\* The test at the head of next_prefix: the query is used up.
query_exhausted(pfx) == Len(pfx.query) <= pfx.length

next_prefix(w, vt, t, pfx) ==
    IF query_exhausted(pfx)
    THEN [ret |-> FALSE, exc |-> FALSE, t |-> t, pfx |-> pfx]
    ELSE Bind(next_prefix_loop(w, vt, t, pfx), LAMBDA l :
         IF l.exit # "leaf"
         THEN [ret |-> l.exit = "true", exc |-> l.exit = "throw",
               t |-> l.t, pfx |-> l.pfx]
         ELSE Bind(itail_seekg(l.t, l.offset), LAMBDA t1 :
              IF itail_match_string_partial(
                    t1, Suffix(l.pfx.query, l.pfx.length))
              THEN Bind(itail_strlen(t1), LAMBDA postfix_size :
                   Bind(itail_read_value(
                           itail_seekg(t1, l.offset + postfix_size + 1),
                           vt, l.pfx.value), LAMBDA r :
                   [ret |-> TRUE, exc |-> FALSE, t |-> r.t,
                    pfx |-> [l.pfx EXCEPT !.length = @ + postfix_size,
                                          !.value = r.value]]))
              ELSE [ret |-> FALSE, exc |-> FALSE, t |-> t1, pfx |-> l.pfx]))

RECURSIVE cursor_hits(_, _, _, _, _)
\* while (pfx.next()) of sample.cpp, at most n calls: the prefixes and the
\* values that the cursor reports, "throw" after a call that threw.
cursor_hits(w, vt, t, pfx, n) ==
    IF n = 0 THEN <<>>
    ELSE Bind(next_prefix(w, vt, t, pfx), LAMBDA r :
         IF r.exc THEN <<"throw">>
         ELSE IF ~r.ret THEN <<>>
         ELSE <<[length |-> r.pfx.length, value |-> r.pfx.value]>>
                  \o cursor_hits(w, vt, r.t, r.pfx, n - 1))

(***************************************************************************)
(* trie::assign(block, size): the parser of the SDAT container.            *)
(***************************************************************************)
\* read_uint32: the unsigned 32-bit integer at offset p of the block.
read_uint32(block, p) ==
    At(block, p) + 256 * At(block, p + 1) + 65536 * At(block, p + 2)
      + 16777216 * At(block, p + 3)

\* read_chunk: the chunk header at offset p of the block.
read_chunk(block, p) ==
    [chunk |-> Slice(block, p, 4), size |-> read_uint32(block, p + 4)]

\* (element_type*)q viewed as `count` elements.
ElementsAt(w, block, q, count) ==
    [k \in 1..count |->
        Slice(block, q + (k - 1) * sizeof_element(w), sizeof_element(w))]

\* The body of the loop for child chunks with a TBLU test that compares
\* the size of the whole chunk.
assign_chunk_whole_size(w, t, block, chunk, q, datasize) ==
    IF chunk = ID_TBLU
    THEN IF datasize + CHUNKSIZE = NUMCHARS
         THEN [t EXCEPT !.table = Slice(block, q, NUMCHARS)]
         ELSE t
    ELSE IF chunk = chunk_id_bytes(w)
    THEN [t EXCEPT !.da =
            [alloc |-> TRUE,
             elems |-> ElementsAt(w, block, q, datasize \div sizeof_element(w))]]
    ELSE IF chunk = ID_TAIL
    THEN [t EXCEPT !.tail = [alloc |-> TRUE, elems |-> Slice(block, q, datasize)]]
    ELSE t

\* The body of the loop for child chunks without the test for the ID of the
\* TAIL chunk: every chunk that is neither the table nor the double array
\* is taken for the tail.
assign_chunk_tail_default(w, t, block, chunk, q, datasize) ==
    IF chunk = ID_TBLU
    THEN IF datasize = NUMCHARS
         THEN [t EXCEPT !.table = Slice(block, q, NUMCHARS)]
         ELSE t
    ELSE IF chunk = chunk_id_bytes(w)
    THEN [t EXCEPT !.da =
            [alloc |-> TRUE,
             elems |-> ElementsAt(w, block, q, datasize \div sizeof_element(w))]]
    ELSE [t EXCEPT !.tail = [alloc |-> TRUE, elems |-> Slice(block, q, datasize)]]

\* The body of the loop for child chunks: the chunk with ID `chunk` whose
\* data of datasize bytes begin at offset q.
assign_chunk(w, t, block, chunk, q, datasize) ==
    IF chunk = ID_TBLU
    THEN IF datasize = NUMCHARS
         THEN [t EXCEPT !.table = Slice(block, q, NUMCHARS)]
         ELSE t
    ELSE IF chunk = chunk_id_bytes(w)
    THEN [t EXCEPT !.da =
            [alloc |-> TRUE,
             elems |-> ElementsAt(w, block, q, datasize \div sizeof_element(w))]]
    ELSE IF chunk = ID_TAIL
    THEN [t EXCEPT !.tail = [alloc |-> TRUE, elems |-> Slice(block, q, datasize)]]
    ELSE t

\* One iteration of the loop for child chunks at offset p: [t, p], the
\* reader and the offset after `p += size`.
assign_iteration(w, t, block, p) ==
    Bind(read_chunk(block, p), LAMBDA h :
        [t |-> assign_chunk(w, t, block, h.chunk, p + CHUNKSIZE,
                            h.size - CHUNKSIZE),
         p |-> p + h.size])

RECURSIVE assign_chunks(_, _, _, _, _)
\* The loop for child chunks, from offset p up to offset last.
assign_chunks(w, t, block, p, last) ==
    IF ~(p < last) THEN t
    ELSE Bind(assign_iteration(w, t, block, p), LAMBDA it :
         assign_chunks(w, it.t, block, it.p, last))

\* trie::assign(block, size) up to the loop for child chunks: [ok, t, p,
\* last]; ok = FALSE for the three "return 0" exits.
assign_head(w, t, block, size) ==
    IF size < SDAT_CHUNKSIZE
    THEN [ok |-> FALSE, t |-> t, p |-> 0, last |-> 0]
    ELSE Bind(read_chunk(block, 0), LAMBDA h :
         Bind(read_uint32(block, CHUNKSIZE), LAMBDA sdat_size :
         Bind(read_uint32(block, CHUNKSIZE + 4), LAMBDA value :
         IF h.chunk # ID_SDAT \/ sdat_size # SDAT_CHUNKSIZE
         THEN [ok |-> FALSE, t |-> t, p |-> 0, last |-> 0]
         ELSE [ok |-> TRUE, t |-> [t EXCEPT !.n = value],
               p |-> SDAT_CHUNKSIZE, last |-> h.size])))

\* trie::assign(block, size) after the loop for child chunks: the value
\* it returns.
assign_return(t, total_size) ==
    IF ~t.da.alloc \/ ~t.tail.alloc THEN 0 ELSE total_size

\* trie::assign(block, size): [t, ret], ret the size used or 0.
trie_assign(w, t, block, size) ==
    Bind(assign_head(w, t, block, size), LAMBDA h :
    IF ~h.ok THEN [t |-> t, ret |-> 0]
    ELSE Bind(assign_chunks(w, h.t, block, h.p, h.last), LAMBDA t1 :
         [t |-> t1, ret |-> assign_return(t1, h.last)]))

(***************************************************************************)
(* trie::read(is).  An input stream is a record [bytes, pos, fail]: the    *)
(* bytes of the file, the read position and the failbit.                   *)
(***************************************************************************)
\* is.read(s, n): past the end of the file it sets failbit; on a stream
\* that has failed it does nothing.
istream_read(is, n) ==
    IF is.fail THEN is
    ELSE IF is.pos + n <= Len(is.bytes) THEN [is EXCEPT !.pos = @ + n]
    ELSE [is EXCEPT !.pos = Len(is.bytes), !.fail = TRUE]

\* is.seekg(offset, std::ios::beg): it does nothing on a stream that has
\* failed.
istream_seekg(is, offset) ==
    IF is.fail THEN is ELSE [is EXCEPT !.pos = offset]

\* trie::read(is): [t, ret, is].  The block that read allocates (m_block)
\* holds the bytes that the arrays of the trie view; the trie record keeps
\* the arrays only.  A declared size below CHUNKSIZE makes the length of
\* the second read wrap around, so that the read fails.  heap stands for
\* the bytes that lie behind m_block in memory: assign never compares the
\* sizes of the chunks with the size of the block, so a chunk that claims
\* more bytes than the block holds makes the arrays view them.
trie_read(w, t, is, heap) ==
    Bind(is.pos, LAMBDA offset :
    Bind(istream_read(is, CHUNKSIZE), LAMBDA is1 :
    IF is1.fail
    THEN [t |-> t, ret |-> 0, is |-> istream_seekg(is1, offset)]
    ELSE Bind(read_chunk(is.bytes, offset), LAMBDA h :
    IF h.chunk # ID_SDAT
    THEN [t |-> t, ret |-> 0, is |-> istream_seekg(is1, offset)]
    ELSE Bind(IF h.size < CHUNKSIZE
              THEN istream_read(is1, Len(is.bytes) + 1)
              ELSE istream_read(is1, h.size - CHUNKSIZE), LAMBDA is2 :
    IF is2.fail
    THEN [t |-> t, ret |-> 0, is |-> istream_seekg(is2, offset)]
    ELSE Bind(trie_assign(w, t, Slice(is.bytes, offset, h.size) \o heap,
                          h.size), LAMBDA r :
    IF r.ret # h.size
    THEN [t |-> r.t, ret |-> 0, is |-> istream_seekg(is2, offset)]
    ELSE [t |-> r.t, ret |-> r.ret, is |-> is2])))))

(***************************************************************************)
(* Lookups by several threads on one trie.  The double array and the       *)
(* table are only read, but every lookup moves the read position of the    *)
(* tail (itail::m_offset) with seekg and operator>> and reads it back in   *)
(* match_string, match_string_partial, strlen and operator>>.  The trie    *)
(* has no lock, so the calls of two threads on m_tail interleave; a step   *)
(* of a thread is one call on m_tail together with the code that leads to  *)
(* it.  A thread is a record                                               *)
(*   [op, key, stage, p, offset, ret, exc, value, pfx, hits]               *)
(* op is "in", "find" or "next" (a cursor for key that is advanced until   *)
(* next() returns false), stage the position in the code, p and offset     *)
(* the locals of locate and next_prefix, ret, exc and value the outcome    *)
(* of the call, pfx the cursor and hits the (length, value) pairs that     *)
(* the next() calls have returned true with.                               *)
(***************************************************************************)
NewThread(op, key) ==
    [op |-> op, key |-> key, stage |-> "start", p |-> 0, offset |-> 0,
     ret |-> FALSE, exc |-> FALSE, value |-> Indeterminate,
     pfx |-> prefix_cursor(key), hits |-> <<>>]

\* The call of the thread returns ret.
thread_return(s, ret) == [s EXCEPT !.stage = "done", !.ret = ret]

RECURSIVE next_prefix_descent(_, _, _)
\* The descent loop of next_prefix up to its first call on m_tail: [exit,
\* pfx, offset], where exit is "false" (return false), "throw", "term" (a
\* child with '\0' was found, its string is at offset) or "leaf" (the loop
\* was left by break, the postfix is at offset).
next_prefix_descent(w, t, pfx0) ==
    Bind(CharAt(pfx0.query, pfx0.length), LAMBDA c :
    Bind([pfx0 EXCEPT !.cur = descend(w, t, pfx0.cur, c)], LAMBDA pfx :
    IF pfx.cur = INVALID_INDEX
    THEN [exit |-> "false", pfx |-> pfx, offset |-> 0]
    ELSE Bind(trie_get_base(w, t, pfx.cur), LAMBDA base :
    IF base < 0
    THEN [exit |-> "leaf",
          pfx |-> IF c # 0 THEN [pfx EXCEPT !.length = @ + 1] ELSE pfx,
          offset |-> -base]
    ELSE Bind(descend(w, t, pfx.cur, 0), LAMBDA cur :
         Bind(IF cur # INVALID_INDEX THEN trie_get_base(w, t, cur) ELSE 0,
              LAMBDA nbase :
         IF cur # INVALID_INDEX /\ nbase # 0
         THEN IF 0 <= nbase
              THEN [exit |-> "throw", pfx |-> pfx, offset |-> 0]
              ELSE [exit |-> "term", pfx |-> pfx, offset |-> -nbase]
         ELSE IF c = 0
         THEN [exit |-> "false", pfx |-> pfx, offset |-> 0]
         ELSE next_prefix_descent(w, t, [pfx EXCEPT !.length = @ + 1]))))))

\* A step of a thread in locate, in or find: [t, s].
lookup_step(w, vt, t, s) ==
    IF s.stage = "start"
    THEN Bind(locate_loop(w, t, s.key, 0, INITIAL_INDEX), LAMBDA d :
         IF ~d.found THEN [t |-> t, s |-> thread_return(s, FALSE)]
         ELSE [t |-> itail_seekg(t, d.offset),
               s |-> [s EXCEPT !.stage = "match", !.p = d.p,
                               !.offset = d.offset]])
    ELSE IF s.stage = "match"
    THEN IF itail_match_string(t, Suffix(s.key, s.p))
         THEN [t |-> t, s |-> [s EXCEPT !.stage = "strlen"]]
         ELSE [t |-> t, s |-> thread_return(s, FALSE)]
    ELSE IF s.stage = "strlen"
    THEN IF s.op = "in"
         THEN [t |-> t, s |-> thread_return(s, TRUE)]
         ELSE [t |-> t,
               s |-> [s EXCEPT !.stage = "seek",
                               !.offset = @ + itail_strlen(t) + 1]]
    ELSE IF s.stage = "seek"
    THEN [t |-> itail_seekg(t, s.offset), s |-> [s EXCEPT !.stage = "read"]]
    ELSE Bind(itail_read_value(t, vt, s.value), LAMBDA r :
         [t |-> r.t, s |-> [thread_return(s, TRUE) EXCEPT !.value = r.value]])

\* next() of the thread's cursor returned true: the hit is recorded and the
\* thread calls next() again.
cursor_hit(s, value) ==
    [s EXCEPT !.stage = "start", !.pfx.value = value,
              !.hits = Append(@, [length |-> s.pfx.length, value |-> value])]

\* A step of a thread in next_prefix: [t, s].
cursor_step(w, vt, t, s) ==
    IF s.stage = "start"
    THEN IF query_exhausted(s.pfx)
         THEN [t |-> t, s |-> thread_return(s, FALSE)]
         ELSE Bind(next_prefix_descent(w, t, s.pfx), LAMBDA d :
              IF d.exit = "false"
              THEN [t |-> t,
                    s |-> [thread_return(s, FALSE) EXCEPT !.pfx = d.pfx]]
              ELSE IF d.exit = "throw"
              THEN [t |-> t,
                    s |-> [thread_return(s, FALSE) EXCEPT !.pfx = d.pfx,
                                                          !.exc = TRUE]]
              ELSE [t |-> itail_seekg(t, d.offset),
                    s |-> [s EXCEPT !.pfx = d.pfx, !.offset = d.offset,
                                    !.stage = IF d.exit = "term"
                                              THEN "term_strlen"
                                              ELSE "leaf_match"]])
    ELSE IF s.stage = "term_strlen"
    THEN IF itail_strlen(t) # 0
         THEN [t |-> t, s |-> [thread_return(s, FALSE) EXCEPT !.exc = TRUE]]
         ELSE [t |-> t,
               s |-> [s EXCEPT !.stage = "seek", !.pfx.length = @ + 1,
                               !.offset = @ + 1]]
    ELSE IF s.stage = "leaf_match"
    THEN IF itail_match_string_partial(t, Suffix(s.pfx.query, s.pfx.length))
         THEN [t |-> t, s |-> [s EXCEPT !.stage = "leaf_strlen"]]
         ELSE [t |-> t, s |-> thread_return(s, FALSE)]
    ELSE IF s.stage = "leaf_strlen"
    THEN Bind(itail_strlen(t), LAMBDA postfix_size :
         [t |-> t,
          s |-> [s EXCEPT !.stage = "seek", !.pfx.length = @ + postfix_size,
                          !.offset = @ + postfix_size + 1]])
    ELSE IF s.stage = "seek"
    THEN [t |-> itail_seekg(t, s.offset), s |-> [s EXCEPT !.stage = "read"]]
    ELSE Bind(itail_read_value(t, vt, s.pfx.value), LAMBDA r :
         [t |-> r.t, s |-> cursor_hit(s, r.value)])

\* A step of a thread: [t, s].
thread_step(w, vt, t, s) ==
    IF s.op = "next" THEN cursor_step(w, vt, t, s)
    ELSE lookup_step(w, vt, t, s)

RECURSIVE thread_alone(_, _, _, _)
\* The thread when it is the only one that runs, from s to the return of
\* its call.
thread_alone(w, vt, t, s) ==
    IF s.stage = "done" THEN s
    ELSE Bind(thread_step(w, vt, t, s), LAMBDA r :
         thread_alone(w, vt, r.t, r.s))

(***************************************************************************)
(* Containers that do not come from builder::write as they are: the block  *)
(* or file handed to trie::assign and trie::read is the output of write()  *)
(* after one change.  The kinds of change:                                 *)
(*   "short"    only the first CHUNKSIZE - 1 bytes are left                *)
(*   "magic"    the first byte of the SDAT ID is another byte              *)
(*   "sdatsize" the header declares a size of the SDAT chunk that is not   *)
(*              SDAT_CHUNKSIZE                                             *)
(*   "cut"      the last byte is missing                                   *)
(*   "notail"   the TAIL chunk is left out, the total size says so         *)
(*   "width"    the container was written by the builder of the other     *)
(*              element width                                              *)
(*   "less"     the header declares a total size one less than the size    *)
(*              of the header and the child chunks                         *)
(*   "unknown"  a chunk with an ID that no reader knows is inserted        *)
(*              before child chunk number `at`, the total size says so     *)
(***************************************************************************)
RECURSIVE child_chunks(_, _)
\* The child chunks of a container from offset p, as write() laid them out.
child_chunks(block, p) ==
    IF ~(p < Len(block)) THEN <<>>
    ELSE Bind(read_chunk(block, p).size, LAMBDA size :
         <<Slice(block, p, size)>> \o child_chunks(block, p + size))

\* The container with the header fields total_size, sdat_size and n and
\* the child chunks.
container(total_size, sdat_size, n, chunks) ==
    write_chunk(ID_SDAT, total_size) \o write_uint32(sdat_size)
        \o write_uint32(n) \o Flatten(chunks)

\* The container whose header declares the size that the chunks have.
packed(n, chunks) ==
    container(SDAT_CHUNKSIZE + Len(Flatten(chunks)), SDAT_CHUNKSIZE, n, chunks)

ID_UNKNOWN == <<88, 88, 88, 88>>

\* A chunk with two bytes of data that no reader knows.
unknown_chunk == write_chunk(ID_UNKNOWN, CHUNKSIZE + 2) \o <<7, 0>>

InsertAt(v, k, x) == SubSeq(v, 1, k) \o <<x>> \o SubSeq(v, k + 1, Len(v))

DamageKinds ==
    {"short", "magic", "sdatsize", "cut", "notail", "width", "less"}

\* write() emits the chunks TBLU, SDA4 or SDA5, and TAIL.
Damages ==
    {[kind |-> k, at |-> 0] : k \in DamageKinds}
        \cup {[kind |-> "unknown", at |-> k] : k \in 0..3}

\* The bytes handed to the reader of a width: out is the output of the
\* builder of that width, other the output of the builder of the other
\* width.
Damaged(d, out, other) ==
    Bind(read_uint32(out, CHUNKSIZE + 4), LAMBDA n :
    Bind(child_chunks(out, SDAT_CHUNKSIZE), LAMBDA chunks :
    IF d.kind = "short" THEN SubSeq(out, 1, CHUNKSIZE - 1)
    ELSE IF d.kind = "magic" THEN Put(out, 0, 88)
    ELSE IF d.kind = "sdatsize"
    THEN container(Len(out), SDAT_CHUNKSIZE + 1, n, chunks)
    ELSE IF d.kind = "cut" THEN SubSeq(out, 1, Len(out) - 1)
    ELSE IF d.kind = "notail"
    THEN packed(n, SubSeq(chunks, 1, Len(chunks) - 1))
    ELSE IF d.kind = "width" THEN other
    ELSE IF d.kind = "less"
    THEN container(Len(out) - 1, SDAT_CHUNKSIZE, n, chunks)
    ELSE packed(n, InsertAt(chunks, d.at, unknown_chunk))))

\* The bytes that lie in memory behind a block.  The code never compares
\* the sizes that the chunks declare with the size of the block, so the
\* arrays of the trie may view (not own) such bytes; what they hold is not
\* defined and is any of these.
PadBytes == {0, 255}

RECURSIVE chunks_reach(_, _, _, _)
\* The loop for child chunks: the offset behind the last byte that it
\* reads (chunk headers, and the table that it copies).
chunks_reach(block, p, last, reach) ==
    IF ~(p < last) THEN reach
    ELSE Bind(read_chunk(block, p), LAMBDA h :
         Bind(IF reach < p + CHUNKSIZE THEN p + CHUNKSIZE ELSE reach,
              LAMBDA r1 :
         chunks_reach(block, p + h.size, last,
             IF h.chunk = ID_TBLU /\ h.size - CHUNKSIZE = NUMCHARS
                /\ r1 < p + h.size
             THEN p + h.size ELSE r1)))

\* trie::assign(block, size): the offset behind the last byte of the block
\* that the call reads.
assign_reach(block, size) ==
    IF size < SDAT_CHUNKSIZE THEN 0
    ELSE IF read_chunk(block, 0).chunk # ID_SDAT THEN CHUNKSIZE
    ELSE IF read_uint32(block, CHUNKSIZE) # SDAT_CHUNKSIZE
    THEN CHUNKSIZE + 4
    ELSE chunks_reach(block, SDAT_CHUNKSIZE, read_chunk(block, 0).size,
                      SDAT_CHUNKSIZE)

(***************************************************************************)
(* The inputs of a run.                                                    *)
(***************************************************************************)
\* The C strings over the bytes 1..MaxKeyByte of length lo..hi.
Strings(lo, hi) == UNION {[1..n -> 1..MaxKeyByte] : n \in lo..hi}

Keys == Strings(1, MaxKeyLen)

Queries == Strings(0, MaxQueryLen)

\* The value of the record at position i: positive and negative ints whose
\* bytes include zero bytes.
ValueOf(i) == IF i % 2 = 0 THEN -i ELSE 255 + i

\* The record sequences handed to build(): sorted or not, with or without
\* duplicates.
RecordSeqs ==
    {[i \in 1..Len(ks) |-> [key |-> ks[i], value |-> ValueOf(i)]] :
        ks \in UNION {[1..m -> Keys] : m \in 1..MaxRecs}}

(***************************************************************************)
(* The state of a run.  The run is a program that, like sample.cpp,        *)
(* build.cpp and search.cpp, builds a trie from records, writes it, loads  *)
(* a trie and then serves queries one after the other.                     *)
(*   recs    the records handed to build()                                 *)
(*   vtype   the value type the templates are instantiated with            *)
(*   tie     the order std::sort leaves bytes of equal frequency in        *)
(*   pc      the position of the program: "build" (the builder is in       *)
(*           use), "serve" (a trie is loaded, no cursor is alive),         *)
(*           "cursor" (a prefix cursor is alive), "failed" (a load failed) *)
(*   nbuilds the number of build() calls so far                            *)
(*   b       b[w], the builder of width w                                  *)
(*   os      os[w], the outputs of the write() calls of the builder        *)
(*   t       t[w], the trie of width w                                     *)
(*   last    last[w], the most recent call of assign, read, in or find on  *)
(*           the trie and what it returned                                 *)
(*   pfx     pfx[w], the prefix cursor                                     *)
(*   calls   calls[w], what the next() calls on the cursor returned        *)
(*   load    load[w], the most recent load of a container that was         *)
(*           tampered with: its arguments, the reader before the call,     *)
(*           what it returned and the stream after it                      *)
(*   th      th[w][i], thread i of a program whose threads share the trie  *)
(*   cap     the most recent capacity test of arrange and what arrange     *)
(*           stored after it                                               *)
(*   ld      ld[w], the call of assign(block, size) that is under way: its *)
(*           block, the offset p and the end `last` of its loop for child  *)
(*           chunks, the parity of the number of iterations (it tells an   *)
(*           iteration that changes nothing else from no step at all) and  *)
(*           the value returned                                            *)
(*   e4      an element of the 4-byte double array that set_base and       *)
(*           set_check are applied to: its bytes, the base and the check   *)
(*           that were stored last and the function applied last           *)
(*   rho     rho[w], the most recent copy construction of a prefix cursor: *)
(*           the source and the copy as they were when it was made         *)
(***************************************************************************)
VARIABLES recs, vtype, tie, pc, nbuilds, b, os, t, last, pfx, calls, load,
          th, cap, ld, e4, rho

vars ==
    <<recs, vtype, tie, pc, nbuilds, b, os, t, last, pfx, calls, load, th,
      cap, ld, e4, rho>>

inputs == <<recs, vtype, tie>>

NoCall ==
    [op |-> "none", key |-> <<>>, found |-> FALSE, value |-> Indeterminate,
     size |-> 0]

NoCursor ==
    [query |-> <<>>, length |-> 0, value |-> Indeterminate,
     cur |-> INVALID_INDEX]

NoStream == [bytes |-> <<>>, pos |-> 0, fail |-> FALSE]

NoLoad ==
    [op |-> "none", damage |-> "none", size |-> 0, pre |-> NewTrie,
     ret |-> 0, tellg |-> 0, is |-> NoStream]

NoThreads == <<>>

NoCap ==
    [kind |-> "none", w |-> 4, base |-> 0, max_offset |-> 0, exc |-> "",
     stored |-> 0, elem |-> default_value(4), index |-> 0]

NoAssign ==
    [stage |-> "idle", block |-> <<>>, p |-> 0, last |-> 0, turn |-> 0,
     ret |-> 0]

NoCopy ==
    [made |-> FALSE, explicit |-> FALSE, source |-> NoCursor,
     copy |-> NoCursor]

\* An element of a new 4-byte double array: default_value(), whose base
\* and check are 0.
NewElement4 ==
    [elem |-> default_value(4), base |-> 0, check |-> 0, op |-> "none"]

\* The objects of the program after their construction.
Constructed ==
    /\ pc = "build"
    /\ nbuilds = 0
    /\ b = [w \in Traits |-> NewBuilder]
    /\ os = [w \in Traits |-> <<>>]
    /\ t = [w \in Traits |-> NewTrie]
    /\ last = [w \in Traits |-> NoCall]
    /\ pfx = [w \in Traits |-> NoCursor]
    /\ calls = [w \in Traits |-> <<>>]
    /\ load = [w \in Traits |-> NoLoad]
    /\ th = [w \in Traits |-> NoThreads]
    /\ cap = NoCap
    /\ ld = [w \in Traits |-> NoAssign]
    /\ e4 = NewElement4
    /\ rho = [w \in Traits |-> NoCopy]

Init ==
    /\ recs \in RecordSeqs
    /\ vtype \in ValueTypes
    /\ tie \in TieOrders
    /\ Constructed

Built == nbuilds > 0 /\ \A w \in Traits : b[w].exc = ""

\* builder.build(records, records + n) on a new builder.
Build ==
    /\ pc = "build"
    /\ nbuilds = 0
    /\ b' = [w \in Traits |-> builder_build(w, vtype, tie, recs, b[w])]
    /\ nbuilds' = nbuilds + 1
    /\ UNCHANGED <<inputs, ld, e4, rho, cap, load, th, pc, os, t, last, pfx, calls>>

\* builder.build(records, records + n) on a builder that has built before.
Rebuild ==
    /\ pc = "build"
    /\ 0 < nbuilds
    /\ nbuilds < MaxBuilds
    /\ b' = [w \in Traits |-> builder_build(w, vtype, tie, recs, b[w])]
    /\ nbuilds' = nbuilds + 1
    /\ UNCHANGED <<inputs, ld, e4, rho, cap, load, th, pc, os, t, last, pfx, calls>>

\* builder.write(os) after a build() call, every earlier build() call
\* having been followed by one.
Write ==
    /\ pc = "build"
    /\ \A w \in Traits : Len(os[w]) = nbuilds - 1
    /\ os' = [w \in Traits |-> Append(os[w], builder_write(w, b[w]))]
    /\ UNCHANGED <<inputs, ld, e4, rho, cap, load, th, pc, nbuilds, b, t, last, pfx, calls>>

\* trie.assign(builder.doublearray(), builder.tail(), builder.table()), once
\* the program has written the builder's output.
AssignBuilder ==
    /\ pc = "build"
    /\ Built
    /\ Len(os[4]) = nbuilds
    /\ t' = [w \in Traits |-> trie_assign_builder(t[w], b[w])]
    /\ pc' = "serve"
    /\ UNCHANGED <<inputs, ld, e4, rho, cap, load, th, nbuilds, b, os, last, pfx, calls>>

\* trie.assign(block, size) on the bytes of one of the outputs.
AssignBlock ==
    /\ pc = "build"
    /\ Built
    /\ \E k \in 1..Len(os[4]) :
         Bind([w \in Traits |->
                  trie_assign(w, t[w], os[w][k], Len(os[w][k]))], LAMBDA r :
           /\ t' = [w \in Traits |-> r[w].t]
           /\ last' = [w \in Traits |->
                         [NoCall EXCEPT !.op = "assign", !.size = r[w].ret]]
           /\ pc' = IF \A w \in Traits : r[w].ret # 0
                    THEN "serve" ELSE "failed")
    /\ UNCHANGED <<inputs, ld, e4, rho, cap, load, th, nbuilds, b, os, pfx, calls>>

\* std::ifstream ifs(file); trie.read(ifs), the file being one of the
\* outputs.
Read ==
    /\ pc = "build"
    /\ Built
    /\ \E k \in 1..Len(os[4]) :
         Bind([w \in Traits |->
                  trie_read(w, t[w],
                            [bytes |-> os[w][k], pos |-> 0, fail |-> FALSE],
                            <<>>)],
              LAMBDA r :
           /\ t' = [w \in Traits |-> r[w].t]
           /\ last' = [w \in Traits |->
                         [NoCall EXCEPT !.op = "read", !.size = r[w].ret]]
           /\ pc' = IF \A w \in Traits : r[w].ret # 0
                    THEN "serve" ELSE "failed")
    /\ UNCHANGED <<inputs, ld, e4, rho, cap, load, th, nbuilds, b, os, pfx, calls>>

\* trie.in(key)
In ==
    /\ pc = "serve"
    /\ \E key \in Queries :
         Bind([w \in Traits |-> trie_in(w, t[w], key)], LAMBDA r :
           /\ t' = [w \in Traits |-> r[w].t]
           /\ last' = [w \in Traits |->
                         [NoCall EXCEPT !.op = "in", !.key = key,
                                        !.found = r[w].ret]])
    /\ UNCHANGED <<inputs, ld, e4, rho, cap, load, th, pc, nbuilds, b, os, pfx, calls>>

\* value_type value; trie.find(key, value)
Find ==
    /\ pc = "serve"
    /\ \E key \in Queries :
         Bind([w \in Traits |->
                  trie_find(w, vtype, t[w], key, Indeterminate)], LAMBDA r :
           /\ t' = [w \in Traits |-> r[w].t]
           /\ last' = [w \in Traits |->
                         [NoCall EXCEPT !.op = "find", !.key = key,
                                        !.found = r[w].ret,
                                        !.value = r[w].value]])
    /\ UNCHANGED <<inputs, ld, e4, rho, cap, load, th, pc, nbuilds, b, os, pfx, calls>>

\* prefix_cursor pfx = trie.prefix(query)
Prefix ==
    /\ pc = "serve"
    /\ \E query \in Queries :
         pfx' = [w \in Traits |-> prefix_cursor(query)]
    /\ pc' = "cursor"
    /\ last' = [w \in Traits |-> NoCall]
    /\ calls' = [w \in Traits |-> <<>>]
    /\ UNCHANGED <<inputs, ld, e4, rho, cap, load, th, nbuilds, b, os, t>>

Threw(w) == \E k \in 1..Len(calls[w]) : calls[w][k].exc

\* pfx.next()
Next_ ==
    /\ pc = "cursor"
    /\ \A w \in Traits : Len(calls[w]) < MaxNext /\ ~Threw(w)
    /\ Bind([w \in Traits |-> next_prefix(w, vtype, t[w], pfx[w])], LAMBDA r :
         /\ t' = [w \in Traits |-> r[w].t]
         /\ pfx' = [w \in Traits |-> r[w].pfx]
         /\ calls' = [w \in Traits |->
                        Append(calls[w],
                               [ret |-> r[w].ret, exc |-> r[w].exc,
                                length |-> r[w].pfx.length,
                                value |-> r[w].pfx.value])])
    /\ UNCHANGED <<inputs, ld, e4, rho, cap, load, th, pc, nbuilds, b, os, last>>

\* The cursor goes out of scope.
Close ==
    /\ pc = "cursor"
    /\ pc' = "serve"
    /\ pfx' = [w \in Traits |-> NoCursor]
    /\ calls' = [w \in Traits |-> <<>>]
    /\ UNCHANGED <<inputs, ld, e4, rho, cap, load, th, nbuilds, b, os, t, last>>

Next ==
    \/ Build
    \/ Write
    \/ AssignBuilder
    \/ AssignBlock
    \/ Read
    \/ In
    \/ Find
    \/ Prefix
    \/ Next_
    \/ Close

Spec == Init /\ [][Next]_vars

(***************************************************************************)
(* The runs of a program that builds and loads a trie like the runs above  *)
(* and then starts NumThreads threads that use the trie at the same time:  *)
(* each thread looks a key up (in or find), or each thread advances a      *)
(* prefix cursor of its own until next() returns false.                    *)
(***************************************************************************)
ThreadIds == 1..NumThreads

\* The threads are started: thread i calls ops[i] with keys[i].
Spawn ==
    /\ pc = "serve"
    /\ \E ops \in [ThreadIds -> {"in", "find", "next"}] :
       \E keys \in [ThreadIds -> {recs[i].key : i \in 1..Len(recs)}] :
         /\ \/ \A i \in ThreadIds : ops[i] # "next"
            \/ \A i \in ThreadIds : ops[i] = "next"
         /\ th' = [w \in Traits |->
                     [i \in ThreadIds |-> NewThread(ops[i], keys[i])]]
    /\ pc' = "threads"
    /\ UNCHANGED <<inputs, ld, e4, rho, cap, load, nbuilds, b, os, t, last, pfx, calls>>

\* Thread i takes its next step.
Step(i) ==
    /\ pc = "threads"
    /\ \A w \in Traits : th[w][i].stage # "done"
    /\ Bind([w \in Traits |-> thread_step(w, vtype, t[w], th[w][i])],
            LAMBDA r :
         /\ t' = [w \in Traits |-> r[w].t]
         /\ th' = [w \in Traits |-> [th[w] EXCEPT ![i] = r[w].s]])
    /\ UNCHANGED <<inputs, ld, e4, rho, cap, load, pc, nbuilds, b, os, last, pfx, calls>>

NextThreads ==
    \/ Build
    \/ Write
    \/ AssignBuilder
    \/ Spawn
    \/ \E i \in ThreadIds : Step(i)

SpecThreads == Init /\ [][NextThreads]_vars

(***************************************************************************)
(* The runs of a program that builds and writes a trie like the runs       *)
(* above and then hands a container that was tampered with to a reader,    *)
(* which is new or has loaded the output of the builder before.            *)
(***************************************************************************)
Other(w) == IF w = 4 THEN 5 ELSE 4

\* The bytes handed to the reader of width w.
DamagedFor(d, w) == Damaged(d, os[w][1], os[Other(w)][1])

\* trie.assign(block, size) on a container that was tampered with.
AssignDamaged ==
    /\ pc \in {"build", "serve"}
    /\ Built
    /\ Len(os[4]) = nbuilds
    /\ load[4].op = "none"
    /\ \E d \in Damages : \E fill \in PadBytes :
         Bind([w \in Traits |-> DamagedFor(d, w)], LAMBDA blk :
         Bind([w \in Traits |->
                  trie_assign(w, t[w], blk[w] \o <<fill>>, Len(blk[w]))],
              LAMBDA r :
           /\ t' = [w \in Traits |-> r[w].t]
           /\ load' = [w \in Traits |->
                         [op |-> "assign", damage |-> d,
                          size |-> Len(blk[w]), pre |-> t[w],
                          ret |-> r[w].ret, tellg |-> 0, is |-> NoStream]]
           /\ last' = [w \in Traits |->
                         [NoCall EXCEPT !.op = "assign", !.size = r[w].ret]]
           /\ pc' = IF \A w \in Traits : r[w].ret # 0
                    THEN "serve" ELSE "failed"))
    /\ UNCHANGED <<inputs, ld, e4, rho, cap, th, nbuilds, b, os, pfx, calls>>

\* trie.read(is) on a stream that holds, behind `lead` other bytes, a
\* container that was tampered with.
ReadDamaged ==
    /\ pc \in {"build", "serve"}
    /\ Built
    /\ Len(os[4]) = nbuilds
    /\ load[4].op = "none"
    /\ \E d \in Damages : \E fill \in PadBytes : \E lead \in 0..MaxLead :
         Bind([w \in Traits |->
                  trie_read(w, t[w],
                            [bytes |-> [k \in 1..lead |-> 0]
                                         \o DamagedFor(d, w),
                             pos |-> lead, fail |-> FALSE],
                            <<fill>>)], LAMBDA r :
           /\ t' = [w \in Traits |-> r[w].t]
           /\ load' = [w \in Traits |->
                         [op |-> "read", damage |-> d,
                          size |-> Len(r[w].is.bytes) - lead, pre |-> t[w],
                          ret |-> r[w].ret, tellg |-> lead, is |-> r[w].is]]
           /\ last' = [w \in Traits |->
                         [NoCall EXCEPT !.op = "read", !.size = r[w].ret]]
           /\ pc' = IF \A w \in Traits : r[w].ret # 0
                    THEN "serve" ELSE "failed")
    /\ UNCHANGED <<inputs, ld, e4, rho, cap, th, nbuilds, b, os, pfx, calls>>

NextLoad ==
    \/ Build
    \/ Write
    \/ AssignBlock
    \/ Read
    \/ AssignDamaged
    \/ ReadDamaged

SpecLoad == Init /\ [][NextLoad]_vars

(***************************************************************************)
(* The capacity tests of arrange.  A build of the model's size stays far   *)
(* from max_base, so the two tests and the store of the base value that    *)
(* follows them are also run on their own, on tail offsets and base        *)
(* addresses next to 0 and next to max_base.  The integers of the model    *)
(* end at max_base of the 5-byte traits: for that width the values stop    *)
(* there.                                                                  *)
(***************************************************************************)
CapValues(w) ==
    (0..CapMargin)
        \cup {max_base(w) - CapMargin + k :
                 k \in 0..(IF w = 4 THEN 2 * CapMargin ELSE CapMargin)}

\* arrange for one record: the leaf case, at the tail offset `offset`, and
\* the set_base of the caller with the value that arrange returns.
ArrangeLeaf ==
    /\ pc = "build"
    /\ nbuilds = 0
    /\ \E w \in Traits : \E offset \in CapValues(w) :
         cap' = IF leaf_overflows(w, offset)
                THEN [NoCap EXCEPT !.kind = "leaf", !.w = w, !.base = offset,
                                   !.exc = ExcLeaves]
                ELSE [kind |-> "leaf", w |-> w, base |-> offset,
                      max_offset |-> 0, exc |-> "", stored |-> -offset,
                      elem |-> traits_set_base(w, default_value(w), -offset),
                      index |-> 0]
    /\ pc' = "capacity"
    /\ UNCHANGED <<inputs, ld, e4, rho, nbuilds, b, os, t, last, pfx, calls, load, th>>

\* arrange for several records, from the point where the base address has
\* been found for child nodes with offsets up to max_offset; the caller
\* stores the base that arrange returns, and base + max_offset is the
\* largest index that arrange has put in use.
ArrangeNode ==
    /\ pc = "build"
    /\ nbuilds = 0
    /\ \E w \in Traits : \E base \in CapValues(w) \ {0} :
       \E max_offset \in 1..NUMCHARS :
         /\ base <= MaxBase5 - max_offset
         /\ cap' = IF children_overflow(w, base, max_offset)
                   THEN [NoCap EXCEPT !.kind = "node", !.w = w,
                                      !.base = base,
                                      !.max_offset = max_offset,
                                      !.exc = ExcChildren]
                   ELSE [kind |-> "node", w |-> w, base |-> base,
                         max_offset |-> max_offset, exc |-> "",
                         stored |-> base,
                         elem |-> traits_set_base(w, default_value(w), base),
                         index |-> base + max_offset]
    /\ pc' = "capacity"
    /\ UNCHANGED <<inputs, ld, e4, rho, nbuilds, b, os, t, last, pfx, calls, load, th>>

NextCapacity ==
    \/ Build
    \/ ArrangeLeaf
    \/ ArrangeNode

SpecCapacity == Init /\ [][NextCapacity]_vars

\* The runs that build more than once on one builder instance and write
\* the outputs.
(***************************************************************************)
(* The loop for child chunks of trie::assign(block, size), one iteration   *)
(* at a time, on containers whose first child chunk (the table) declares   *)
(* a size that was tampered with: every size from 0 up to the true one.    *)
(* The bytes that the loop then takes for chunk headers lie in the table   *)
(* chunk and in the header of the double-array chunk, so that no ID that   *)
(* it reads is one of a known chunk.                                       *)
(***************************************************************************)
TableChunkSizes == 0..(CHUNKSIZE + NUMCHARS)

\* The container `out` with the size v declared by its first child chunk.
WithTableChunkSize(out, v) ==
    SubSeq(out, 1, SDAT_CHUNKSIZE + 4) \o write_uint32(v)
        \o SubSeq(out, SDAT_CHUNKSIZE + CHUNKSIZE + 1, Len(out))

\* trie.assign(block, size) begins and reaches the loop for child chunks,
\* or returns 0 before it.
AssignBegin ==
    /\ pc = "build"
    /\ Built
    /\ \E k \in 1..Len(os[4]), v \in TableChunkSizes :
         Bind([w \in Traits |-> WithTableChunkSize(os[w][k], v)],
              LAMBDA block :
         Bind([w \in Traits |->
                  assign_head(w, t[w], block[w], Len(block[w]))], LAMBDA h :
           /\ t' = [w \in Traits |-> h[w].t]
           /\ ld' = [w \in Traits |->
                       [stage |-> IF h[w].ok THEN "loop" ELSE "done",
                        block |-> block[w], p |-> h[w].p,
                        last |-> h[w].last, turn |-> 0, ret |-> 0]]))
    /\ pc' = "assign"
    /\ UNCHANGED <<inputs, e4, rho, cap, load, th, nbuilds, b, os, last, pfx, calls>>

\* One iteration of the loop `while (p < last)` of the reader of width w.
AssignIterate(w) ==
    /\ pc = "assign"
    /\ ld[w].stage = "loop"
    /\ ld[w].p < ld[w].last
    /\ Bind(assign_iteration(w, t[w], ld[w].block, ld[w].p), LAMBDA it :
         /\ t' = [t EXCEPT ![w] = it.t]
         /\ ld' = [ld EXCEPT ![w].p = it.p, ![w].turn = 1 - @])
    /\ UNCHANGED <<inputs, e4, rho, cap, load, th, pc, nbuilds, b, os, last, pfx,
                   calls>>

\* The loop of the reader of width w ends and assign returns.
AssignReturn(w) ==
    /\ pc = "assign"
    /\ ld[w].stage = "loop"
    /\ ~(ld[w].p < ld[w].last)
    /\ ld' = [ld EXCEPT ![w].stage = "done",
                        ![w].ret = assign_return(t[w], ld[w].last)]
    /\ UNCHANGED <<inputs, e4, rho, cap, load, th, pc, nbuilds, b, os, t, last, pfx,
                   calls>>

NextAssign ==
    \/ Build
    \/ Write
    \/ AssignBegin
    \/ \E w \in Traits : AssignIterate(w)
    \/ \E w \in Traits : AssignReturn(w)

\* A call that is running runs on: an iteration that can be taken is
\* taken, and so is the return.
SpecAssign ==
    /\ Init
    /\ [][NextAssign]_vars
    /\ \A w \in Traits :
          WF_vars(AssignIterate(w)) /\ WF_vars(AssignReturn(w))

(***************************************************************************)
(* doublearray4_traits::set_base and set_check applied to one element, in  *)
(* any order and any number of times, with bases within PackMargin of 0,   *)
(* of the powers of 256 and of the two ends of the range of a base, and    *)
(* with every check.                                                       *)
(***************************************************************************)
PackMargin == 2

Bases4 ==
    UNION {{c - m, c + m, (0 - c) - m, (0 - c) + m} :
              c \in {0, 256, 65536, MaxBase4}, m \in 0..PackMargin}
        \cap ((0 - MaxBase4)..MaxBase4)

Checks == 0..255

\* A program that only packs elements.
InitPacking ==
    /\ recs = <<[key |-> <<1>>, value |-> ValueOf(1)]>>
    /\ vtype = "int"
    /\ tie = "asc"
    /\ Constructed

SetBase ==
    /\ \E v \in Bases4 :
         e4' = [e4 EXCEPT !.elem = doublearray4_set_base(@, v),
                          !.base = v, !.op = "set_base"]
    /\ UNCHANGED <<inputs, ld, rho, cap, load, th, pc, nbuilds, b, os, t,
                   last, pfx, calls>>

SetCheck ==
    /\ \E v \in Checks :
         e4' = [e4 EXCEPT !.elem = doublearray4_set_check(@, v),
                          !.check = v, !.op = "set_check"]
    /\ UNCHANGED <<inputs, ld, rho, cap, load, th, pc, nbuilds, b, os, t,
                   last, pfx, calls>>

NextPacking ==
    \/ SetBase
    \/ SetCheck

SpecPacking == InitPacking /\ [][NextPacking]_vars

(***************************************************************************)
(* Copies of prefix cursors.  trie::prefix returns its cursor by value and *)
(* sample.cpp initialises a cursor from it: the compiler may construct the *)
(* cursor in place or call the copy constructor.  A program may also copy  *)
(* a cursor after some next() calls.  The member that the copy constructor *)
(* leaves unset holds whatever its storage held.  The program opens one    *)
(* cursor.                                                                 *)
(***************************************************************************)
IndeterminateLengths == 0..(MaxQueryLen + 1)

\* trie_type::prefix_cursor pfx = trie.prefix(query);
PrefixByValue ==
    /\ pc = "serve"
    /\ \E query \in Queries, elided \in BOOLEAN,
          length \in IndeterminateLengths :
         Bind(IF elided THEN prefix_cursor(query)
              ELSE prefix_cursor_copy(prefix_cursor(query), length),
              LAMBDA copy :
           /\ pfx' = [w \in Traits |-> copy]
           /\ rho' = [w \in Traits |->
                        [made |-> TRUE, explicit |-> FALSE,
                         source |-> prefix_cursor(query), copy |-> copy]])
    /\ pc' = "cursor"
    /\ last' = [w \in Traits |-> NoCall]
    /\ calls' = [w \in Traits |-> <<>>]
    /\ UNCHANGED <<inputs, ld, e4, cap, load, th, nbuilds, b, os, t>>

\* trie_type::prefix_cursor copy(pfx); the program goes on with the copy
\* (it copies a cursor once).
Copy ==
    /\ pc = "cursor"
    /\ \A w \in Traits : ~Threw(w) /\ ~rho[w].explicit
    /\ \E length \in IndeterminateLengths :
         /\ pfx' = [w \in Traits |-> prefix_cursor_copy(pfx[w], length)]
         /\ rho' = [w \in Traits |->
                      [made |-> TRUE, explicit |-> TRUE, source |-> pfx[w],
                       copy |-> prefix_cursor_copy(pfx[w], length)]]
    /\ UNCHANGED <<inputs, ld, e4, cap, load, th, pc, nbuilds, b, os, t,
                   last, calls>>

NextCopy ==
    \/ Build
    \/ Write
    \/ AssignBuilder
    \/ PrefixByValue
    \/ Next_
    \/ Copy

SpecCopy == Init /\ [][NextCopy]_vars

NextRebuild ==
    \/ Build
    \/ Rebuild
    \/ Write

SpecRebuild == Init /\ [][NextRebuild]_vars

(***************************************************************************)
(* The vocabulary of the properties.                                       *)
(***************************************************************************)
\* The keys of the records handed to build().
KeySet == {recs[i].key : i \in 1..Len(recs)}

\* x is a prefix of y.
IsPrefix(x, y) == Len(x) <= Len(y) /\ SubSeq(y, 1, Len(x)) = x

\* x is before y in dictionary order (the order of strcmp).
LexLess(x, y) ==
    \E k \in 0..Len(x) :
        /\ k <= Len(y)
        /\ \A j \in 0..(k - 1) : CharAt(x, j) = CharAt(y, j)
        /\ CharAt(x, k) < CharAt(y, k)

\* Positions i whose record has a successor.
Adjacent == 1..(Len(recs) - 1)

\* Every key is greater than the key before it.
StrictlySorted == \A i \in Adjacent : LexLess(recs[i].key, recs[i + 1].key)

\* No key is smaller than the key before it.
NonDecreasing == \A i \in Adjacent : ~LexLess(recs[i + 1].key, recs[i].key)

\* No key equals the key before it.
NoAdjacentEqual == \A i \in Adjacent : recs[i].key # recs[i + 1].key

\* Two records have the same key.
HasDuplicate ==
    \E i, j \in 1..Len(recs) : i # j /\ recs[i].key = recs[j].key

\* The value stored with key k, for k \in KeySet.
StoredValue(k) == recs[CHOOSE i \in 1..Len(recs) : recs[i].key = k].value

\* v is the value stored with key k; every empty_type value is the same.
IsStoredValue(v, k) == vtype = "empty" \/ v = StoredValue(k)

\* The errors that say the double array is out of space.
CapacityErrors == {ExcLeaves, ExcChildren}

\* The records whose key is a prefix of q, by increasing length of key.
RECURSIVE PrefixHits(_, _)
PrefixHits(q, n) ==
    IF n > Len(q) THEN <<>>
    ELSE (IF SubSeq(q, 1, n) \in KeySet
          THEN <<[length |-> n, key |-> SubSeq(q, 1, n)]>>
          ELSE <<>>) \o PrefixHits(q, n + 1)

\* The next() calls of the cursor of width w that returned true.
TrueCalls(w) == SelectSeq(calls[w], LAMBDA c : c.ret)

\* The cursor of width w has returned false: it has reported every result.
Exhausted(w) ==
    /\ pc = "cursor"
    /\ calls[w] # <<>>
    /\ ~calls[w][Len(calls[w])].ret
    /\ ~calls[w][Len(calls[w])].exc

(***************************************************************************)
(* The properties.                                                         *)
(***************************************************************************)
\* C1 (round trip): after build(R) of a sorted, duplicate-free R of one
\* record or more, find(r.key) on the loaded trie succeeds for every record
\* r of R and returns r.value.
C1_RoundTrip ==
    \A w \in Traits :
        (last[w].op = "find" /\ last[w].key \in KeySet)
            => /\ last[w].found
               /\ IsStoredValue(last[w].value, last[w].key)

\* C2 (negative lookup): for a key that is not a key of R, in(k) returns
\* false and find(k) returns false and leaves the output value as it was.
C2_NegativeLookup ==
    \A w \in Traits :
        (last[w].op \in {"in", "find"} /\ last[w].key \notin KeySet)
            => /\ ~last[w].found
               /\ last[w].value = Indeterminate

\* find(k) was called with a proper extension of a stored key that is not
\* a stored key, on a trie of three records.
C2_Witness ==
    /\ Len(recs) = 3
    /\ last[4].op = "find"
    /\ last[4].key \notin KeySet
    /\ \E k \in KeySet : IsPrefix(k, last[4].key)
    /\ ~last[4].found

\* C3 (prefix correctness): the next() calls on prefix(q) that return true,
\* up to the call that returns false, report exactly the records whose key
\* is a prefix of q, each with length = |key| and the stored value.
C3_PrefixCorrectness ==
    \A w \in Traits :
        Exhausted(w) =>
            LET hits == TrueCalls(w)
                expected == PrefixHits(pfx[w].query, 1)
            IN /\ Len(hits) = Len(expected)
               /\ \A i \in 1..Len(hits) :
                     /\ hits[i].length = expected[i].length
                     /\ IsStoredValue(hits[i].value, expected[i].key)

\* C4 (prefix ordering): on one cursor, a next() call that returns true
\* reports a length greater than the length of every earlier hit, and no
\* next() call returns true after one has returned false.
C4_PrefixOrdering ==
    \A w \in Traits :
        \A i, j \in 1..Len(calls[w]) :
            i < j =>
                /\ (calls[w][i].ret /\ calls[w][j].ret)
                       => calls[w][i].length < calls[w][j].length
                /\ (~calls[w][i].ret /\ ~calls[w][i].exc) => ~calls[w][j].ret

\* A cursor has reported two hits and then returned false twice.
C4_Witness ==
    /\ pc = "cursor"
    /\ Len(calls[4]) = 4
    /\ calls[4][1].ret /\ calls[4][2].ret
    /\ calls[4][1].length < calls[4][2].length
    /\ ~calls[4][3].ret /\ ~calls[4][4].ret

\* C5 (set behaviour of empty_type): with empty_type values, in(k) is true
\* if and only if k is a key of the set that was built.
C5_EmptySet ==
    vtype = "empty" =>
        \A w \in Traits :
            last[w].op = "in" => (last[w].found <=> last[w].key \in KeySet)

\* C6 (unsorted rejection), as stated: when some key is not greater than
\* the key before it, build() signals the unsorted-input error.
C6_UnsortedRejection ==
    (nbuilds > 0 /\ ~StrictlySorted)
        => \A w \in Traits : b[w].exc = ExcUnsorted

\* C6 (unsorted rejection), as the code has it: when some key is not
\* greater than the key before it, build() does not return normally; when
\* moreover no key equals the key before it, the error is the
\* unsorted-input error (or an out-of-space error).
C6_NotAscendingRejected ==
    (nbuilds > 0 /\ ~StrictlySorted)
        => \A w \in Traits :
              /\ b[w].exc # ""
              /\ NoAdjacentEqual
                    => b[w].exc \in {ExcUnsorted} \cup CapacityErrors

\* build() threw the unsorted-input error on three records, no two
\* adjacent ones equal, that are not in ascending order.
C6_Witness ==
    /\ nbuilds > 0
    /\ Len(recs) = 3
    /\ ~StrictlySorted
    /\ NoAdjacentEqual
    /\ \A w \in Traits : b[w].exc = ExcUnsorted

\* C7 (duplicate rejection), as stated: when two records have the same
\* key, build() signals "Duplicated keys detected".
C7_DuplicateRejection ==
    (nbuilds > 0 /\ HasDuplicate)
        => \A w \in Traits : b[w].exc = ExcDuplicated

\* C7 (duplicate rejection), as the code has it: when two records have the
\* same key, build() does not return normally; when moreover no key is
\* smaller than the key before it, the error is "Duplicated keys detected"
\* (or an out-of-space error).
C7_DuplicatesRejected ==
    (nbuilds > 0 /\ HasDuplicate)
        => \A w \in Traits :
              /\ b[w].exc # ""
              /\ NonDecreasing
                    => b[w].exc \in {ExcDuplicated} \cup CapacityErrors

\* build() threw "Duplicated keys detected" on three records in
\* non-decreasing order, two of them equal.
C7_Witness ==
    /\ nbuilds > 0
    /\ Len(recs) = 3
    /\ HasDuplicate
    /\ NonDecreasing
    /\ \A w \in Traits : b[w].exc = ExcDuplicated

\* C8 (determinism): the write() outputs of successive successful build()
\* calls on one builder instance over the same records are byte-identical.
C8_Determinism ==
    Built =>
        \A w \in Traits :
            \A i, j \in 1..Len(os[w]) : os[w][i] = os[w][j]

\* C9 (serialization round trip): assign(block, size) and read(is) of the
\* bytes of write() return the declared total size, the size of the
\* output, and leave a trie whose double array, tail and character table
\* equal the builder's, on which find returns for every query what it
\* returns on a trie assigned from the builder directly.
C9_SerializationRoundTrip ==
    \A w \in Traits :
        last[w].op \in {"assign", "read"} =>
            /\ last[w].size = Len(os[w][1])
            /\ last[w].size = read_uint32(os[w][1], 4)
            /\ t[w].da = [alloc |-> TRUE, elems |-> b[w].da]
            /\ t[w].tail = [alloc |-> TRUE, elems |-> b[w].tail]
            /\ t[w].table = b[w].table
            /\ \A q \in Queries :
                  LET loaded == trie_find(w, vtype, t[w], q, Indeterminate)
                      direct == trie_find(w, vtype,
                                          trie_assign_builder(NewTrie, b[w]),
                                          q, Indeterminate)
                  IN /\ loaded.ret = direct.ret
                     /\ loaded.value = direct.value

\* assign(block, size) loaded the output of a build of three records whose
\* character table is not the identity.
C9_Witness ==
    /\ Len(recs) = 3
    /\ pc = "serve"
    /\ last[4].op = "assign"
    /\ last[4].size = Len(os[4][1])
    /\ t[4].table # NewTrie.table
    /\ \E q \in Queries : trie_find(4, vtype, t[4], q, Indeterminate).ret

\* C10 (width neutrality): the trie of 4-byte elements and the trie of
\* 5-byte elements built from the same records return the same results for
\* in, find and every next() call of a prefix cursor.
C10_WidthNeutrality ==
    /\ last[4].op \in {"in", "find"} => last[4] = last[5]
    /\ calls[4] = calls[5]

\* Both tries found a key with its value, and both cursors reported two
\* hits.
C10_Witness ==
    \/ /\ last[4].op = "find"
       /\ last[4].found /\ last[5].found
       /\ last[4].value # Indeterminate
       /\ Len(recs) = 3
    \/ /\ pc = "cursor"
       /\ Len(TrueCalls(4)) = 2
       /\ Len(TrueCalls(5)) = 2

(***************************************************************************)
(* Threads.                                                                *)
(***************************************************************************)
\* What the call of thread i returns when it is executed alone on the trie
\* that the program loaded.
Alone(w, i) ==
    thread_alone(w, vtype, trie_assign_builder(NewTrie, b[w]),
                 NewThread(th[w][i].op, th[w][i].key))

\* The outcome of a call: the returned flag, whether it threw, the value
\* and the hits of the cursor.
Outcome(s) ==
    [ret |-> s.ret, exc |-> s.exc, value |-> s.value, hits |-> s.hits]

\* C11 Concurrent readers: when two or more threads call in or find on the
\* same loaded trie at the same time, then under every interleaving of
\* their steps each call that has returned has returned the found flag and
\* the value that it returns when it is executed alone.
C11_ConcurrentReaders ==
    pc = "threads" =>
        \A w \in Traits : \A i \in ThreadIds :
            (th[w][i].op # "next" /\ th[w][i].stage = "done")
                => Outcome(th[w][i]) = Outcome(Alone(w, i))

\* C12 Cursor independence: for distinct prefix cursors over the same trie
\* that are advanced at the same time, under every interleaving of the
\* steps of their next() calls each cursor that has come to its end has
\* yielded the sequence of (length, value) hits that it yields when it is
\* the only cursor advanced.
C12_CursorIndependence ==
    pc = "threads" =>
        \A w \in Traits : \A i \in ThreadIds :
            (th[w][i].op = "next" /\ th[w][i].stage = "done")
                => /\ th[w][i].hits = Alone(w, i).hits
                   /\ th[w][i].exc = Alone(w, i).exc

(***************************************************************************)
(* Loads of containers that were tampered with.                            *)
(***************************************************************************)
\* The reader of width w holds the record count, the table and the arrays
\* that it held before the most recent load.
ReaderAsBefore(w) ==
    /\ t[w].n = load[w].pre.n
    /\ t[w].table = load[w].pre.table
    /\ t[w].da = load[w].pre.da
    /\ t[w].tail = load[w].pre.tail

\* The bytes that the most recent load handed to the reader of width w.
LoadedBlock(w) == DamagedFor(load[w].damage, w)

\* The total size that the SDAT header of these bytes declares.
DeclaredTotal(w) == read_chunk(LoadedBlock(w), 0).size

RECURSIVE WalkEnd(_, _)
\* The offset at which walking the child chunks of the block from offset p
\* by their declared sizes ends: SDAT_CHUNKSIZE plus the sum of the sizes.
WalkEnd(block, p) ==
    IF Len(block) < p + CHUNKSIZE THEN p
    ELSE WalkEnd(block, p + read_chunk(block, p).size)

\* C13 Failed load leaves the reader uninitialized: whenever assign(block,
\* size) or read(stream) returns 0, the record count, the character table,
\* the double array and the tail of the reader are as they were before the
\* call.
C13_FailedLoadLeavesReader ==
    \A w \in Traits :
        (load[w].op # "none" /\ load[w].ret = 0) => ReaderAsBefore(w)

\* C14 Stream rewind on failed read: whenever read(stream) returns 0, the
\* read position of the stream after the call equals its position before
\* the call.
C14_StreamRewind ==
    \A w \in Traits :
        (load[w].op = "read" /\ load[w].ret = 0)
            => load[w].is.pos = load[w].tellg

\* C15 Strict size validation: assign(block, size) returns 0 whenever the
\* total size declared in the SDAT header differs from 16 plus the sum of
\* the declared sizes of the child chunks.
C15_StrictSizeValidation ==
    \A w \in Traits :
        (/\ load[w].op = "assign"
         /\ SDAT_CHUNKSIZE <= load[w].size
         /\ DeclaredTotal(w) # WalkEnd(LoadedBlock(w), SDAT_CHUNKSIZE))
            => load[w].ret = 0

\* C16 Truncated input is rejected: assign(block, size) returns 0 and reads
\* no byte at offset size or beyond whenever size is smaller than the total
\* size declared in the SDAT header or a child chunk's declared size
\* extends past the end of the block.
C16_TruncatedRejected ==
    \A w \in Traits :
        (/\ load[w].op = "assign"
         /\ SDAT_CHUNKSIZE <= load[w].size
         /\ \/ load[w].size < DeclaredTotal(w)
            \/ load[w].size < WalkEnd(LoadedBlock(w), SDAT_CHUNKSIZE))
            => /\ load[w].ret = 0
               /\ assign_reach(LoadedBlock(w), load[w].size) <= load[w].size

\* C17 Element-width mismatch is rejected: loading a container whose
\* double-array chunk is of the other element width fails with return
\* value 0, whatever the reader held before the call.
C17_WidthMismatchRejected ==
    \A w \in Traits :
        (load[w].op # "none" /\ load[w].damage.kind = "width")
            => load[w].ret = 0

\* C18 Unknown chunks are skipped: a load of a valid container with a child
\* chunk of an unrecognised ID inserted anywhere among its child chunks (the
\* total size adjusted) succeeds, and the table, the double array and the
\* tail of the reader are those that a load of the container without that
\* chunk gives.
C18_UnknownChunksSkipped ==
    \A w \in Traits :
        (load[w].op # "none" /\ load[w].damage.kind = "unknown")
            => Bind(trie_assign(w, load[w].pre, os[w][1], Len(os[w][1])),
                    LAMBDA r :
                 /\ r.ret = Len(os[w][1])
                 /\ load[w].ret = load[w].size
                 /\ load[w].ret = r.ret + Len(unknown_chunk)
                 /\ t[w].n = r.t.n
                 /\ t[w].table = r.t.table
                 /\ t[w].da = r.t.da
                 /\ t[w].tail = r.t.tail)

\* A reader has loaded a container with an unknown chunk behind the TAIL
\* chunk, and another one with the unknown chunk before the table.
C18_Witness ==
    /\ load[4].op = "assign"
    /\ load[4].damage.kind = "unknown"
    /\ load[4].damage.at = 3
    /\ \A w \in Traits :
          /\ load[w].ret # 0
          /\ t[w].da.alloc
          /\ t[w].tail.alloc
          /\ Len(t[w].tail.elems) > SizeofInt

(***************************************************************************)
(* Capacity.                                                               *)
(***************************************************************************)
\* The base value v fits the element width w.
BaseInRange(w, v) == (0 - max_base(w)) <= v /\ v <= max_base(w)

\* C19 Capacity: arrange throws whenever the tail offset of a leaf, or the
\* base of an internal node plus its largest child offset, exceeds
\* max_base of the element width; hence when it does not throw, the base
\* value that is stored reads back as it was computed, lies within
\* -max_base..max_base, and the largest index in use is below max_base;
\* and after a successful build every base value of the builder's double
\* array lies within -max_base..max_base and every index is below max_base.
C19_Capacity ==
    /\ (cap.kind = "leaf" /\ max_base(cap.w) < cap.base)
          => cap.exc = ExcLeaves
    /\ (cap.kind = "node" /\ max_base(cap.w) < cap.base + cap.max_offset)
          => cap.exc = ExcChildren
    /\ (cap.kind # "none" /\ cap.exc = "")
          => /\ traits_get_base(cap.w, cap.elem) = cap.stored
             /\ BaseInRange(cap.w, cap.stored)
             /\ cap.index < max_base(cap.w)
    /\ \A w \in Traits :
          (nbuilds > 0 /\ b[w].exc = "")
             => /\ Len(b[w].da) <= max_base(w)
                /\ \A i \in 0..(Len(b[w].da) - 1) :
                      BaseInRange(w, builder_get_base(w, b[w], i))

\* arrange has accepted child nodes whose largest index is max_base - 1,
\* the largest one that it accepts.
C19_Witness ==
    /\ cap.kind = "node"
    /\ cap.exc = ""
    /\ cap.index = max_base(cap.w) - 1

(***************************************************************************)
(* The builder after an error.                                             *)
(***************************************************************************)
\* The size of the container that write() emits for a double array of the
\* initial node alone and a tail of the bytes that clear() writes.
EmptyOutputSize(w) ==
    SDAT_CHUNKSIZE + (CHUNKSIZE + NUMCHARS)
        + (CHUNKSIZE + sizeof_element(w) * (INITIAL_INDEX + 1))
        + (CHUNKSIZE + SizeofInt)

\* C20 No partial output after a builder error: after build() has failed
\* with a builder exception, the builder's double array holds no node
\* besides the initial node and its tail holds no leaf of the failed build
\* (only the bytes that clear() writes), and a write() after the failure
\* serializes no node or leaf: its output is no larger than that of the
\* empty arrays.
C20_NoPartialOutput ==
    \A w \in Traits :
        (nbuilds > 0 /\ b[w].exc # "")
            => /\ Len(b[w].da) <= INITIAL_INDEX + 1
               /\ Len(b[w].tail) = SizeofInt
               /\ b[w].stat.da_num_leaves = 0
               /\ Len(os[w]) = nbuilds
                     => Len(os[w][nbuilds]) <= EmptyOutputSize(w)

(***************************************************************************)
(* The character table.                                                    *)
(***************************************************************************)
\* The table of the builder of width w is a permutation of the bytes.
IsPermutation(w) ==
    /\ Len(b[w].table) = NUMCHARS
    /\ {b[w].table[k] : k \in 1..NUMCHARS} = 0..(NUMCHARS - 1)

\* C21 Character table: after build(), the table is a permutation of the
\* bytes in which byte c1 gets a smaller rank than byte c2 whenever c1
\* occurs more often than c2 in the keys (one 0x00 counted per record), and
\* also whenever they occur equally often and c1 < c2.
C21_CharacterTable ==
    \A w \in Traits :
        nbuilds > 0 =>
            /\ IsPermutation(w)
            /\ \A c1, c2 \in 0..(NUMCHARS - 1) :
                  (\/ Freq(recs, c1) > Freq(recs, c2)
                   \/ (Freq(recs, c1) = Freq(recs, c2) /\ c1 < c2))
                      => At(b[w].table, c1) < At(b[w].table, c2)

(***************************************************************************)
(* The record count.                                                       *)
(***************************************************************************)
\* C22 Record count: after a trie has been populated from a built record
\* set of n records, by read(stream), by assign(block, size) or by
\* assign(doublearray, tail, table) taken from the builder, size() returns
\* n.
C22_RecordCount ==
    pc = "serve" => \A w \in Traits : trie_size(t[w]) = Len(recs)

(***************************************************************************)
(* Ownership of the slots of the double array.                             *)
(***************************************************************************)

\* The slot i of the double array da is unused (da_in_use is false).
SlotUnused(w, da, i) ==
    ~(i < Len(da) /\ traits_get_base(w, At(da, i)) # 0)

\* The internal nodes of the double array of the builder of width w.
InternalNodes(w) ==
    {i \in 1..(Len(b[w].da) - 1) : builder_get_base(w, b[w], i) > 0}

\* The pairs (parent, byte) that the slot i is the child of.
Owners(w, i) ==
    {pr \in InternalNodes(w) \X (0..(NUMCHARS - 1)) :
        /\ i = builder_get_base(w, b[w], pr[1]) + At(b[w].table, pr[2]) + 1
        /\ traits_get_check(w, At(b[w].da, i)) = At(b[w].table, pr[2])}

\* A search for a base rejected a candidate base that was large enough:
\* the base was in use already, or a child slot was.
Rejected(s) ==
    \E k \in 1..(Len(s.trials) - 1) :
        s.trials[k] >= INITIAL_INDEX + s.offsets[1]

\* C23: after every successful build no two distinct internal nodes have
\* the same base and every in-use slot other than the root is the child
\* of exactly one pair (parent, byte); during every build the child slots
\* that a search for a base chooses were all unused when it began.
C23_SoleOwnership ==
    \A w \in Traits :
        /\ Built =>
              /\ \A i, j \in InternalNodes(w) :
                    i # j => builder_get_base(w, b[w], i)
                                 # builder_get_base(w, b[w], j)
              /\ \A i \in 1..(Len(b[w].da) - 1) :
                    (da_in_use(w, b[w], i) /\ i # INITIAL_INDEX)
                        => Cardinality(Owners(w, i)) = 1
        /\ \A n \in 1..Len(b[w].hist.searches) :
              Bind(b[w].hist.searches[n], LAMBDA s :
                  s.base # 0 =>
                      \A k \in 1..Len(s.offsets) :
                          SlotUnused(w, s.da, s.base + s.offsets[k]))

\* A successful build with two internal nodes in which a search for a
\* base rejected a candidate.
C23_Witness ==
    /\ Built
    /\ \A w \in Traits :
          /\ Cardinality(InternalNodes(w)) >= 2
          /\ \E n \in 1..Len(b[w].hist.searches) :
                Rejected(b[w].hist.searches[n])

(***************************************************************************)
(* The list of vacant slots.                                               *)
(***************************************************************************)

RECURSIVE VisitFrom(_, _, _)
\* The indices of the link array `links` that following the next links
\* visits after `acc`, beginning with the index i (the walk is cut off when
\* it has visited more indices than the array has).
VisitFrom(links, i, acc) ==
    IF i < 1 \/ i >= Len(links) \/ Len(acc) > Len(links) THEN acc
    ELSE VisitFrom(links, At(links, i).next, Append(acc, i))

\* The indices i >= 1 of the link array whose slot of da is unused.
Vacant(w, da, links) == {i \in 1..(Len(links) - 1) : SlotUnused(w, da, i)}

\* The largest element of the non-empty set S of numbers.
Largest(S) == CHOOSE m \in S : \A x \in S : x <= m

\* The smallest element of the non-empty set S of numbers.
Smallest(S) == CHOOSE m \in S : \A x \in S : m <= x

\* The vacant list `links` is well formed for the double array da.
VacantListOK(w, da, links) ==
    /\ Len(links) >= 1
    /\ Bind(VisitFrom(links, At(links, 0).next, <<>>), LAMBDA v :
          /\ \A k \in 1..(Len(v) - 1) : v[k] < v[k + 1]
          /\ {v[k] : k \in 1..Len(v)} = Vacant(w, da, links)
          /\ \A k \in 1..Len(v) :
                At(links, v[k]).prev = IF k = 1 THEN 0 ELSE v[k - 1]
          /\ Len(v) > 0 => At(links, 0).prev = v[Len(v)])
    /\ Vacant(w, da, links) # {}
          => At(links, 0).prev = Largest(Vacant(w, da, links))
    /\ \A i \in Vacant(w, da, links) :
          vlist_next([elink |-> links], i) =
              Smallest({j \in Vacant(w, da, links) : j > i}
                           \cup {Len(links)})

\* C24: every time arrange starts to search for a base, the next links
\* from the sentinel visit in strictly ascending order exactly the indices
\* of the link array whose slot is unused, prev is the inverse of next on
\* them, the prev link of the sentinel is the largest vacant index, and
\* vlist_next of a vacant index is the smallest vacant index above it.
C24_VacancyList ==
    \A w \in Traits :
        \A n \in 1..Len(b[w].hist.searches) :
            VacantListOK(w, b[w].hist.searches[n].da,
                         b[w].hist.searches[n].elink)

\* A search began when a used slot lay between two vacant slots of the
\* link array.
C24_Witness ==
    \A w \in Traits :
        \E n \in 1..Len(b[w].hist.searches) :
            Bind(b[w].hist.searches[n], LAMBDA s :
                \E i, j \in Vacant(w, s.da, s.elink) :
                    \E k \in (i + 1)..(j - 1) : ~SlotUnused(w, s.da, k))

(***************************************************************************)
(* Exceptions of the prefix cursor.                                        *)
(***************************************************************************)

\* C25: on a trie loaded from a successful build, no next() call on a
\* prefix cursor throws, whatever the query is.
C25_NextNeverThrows ==
    pc = "cursor" => \A w \in Traits : ~Threw(w)

\* A next() call reported a key that is a proper prefix of another key: it
\* went through the null child of an internal node and past both throws.
C25_Witness ==
    /\ pc = "cursor"
    /\ \A w \in Traits :
          \E k \in 1..Len(calls[w]) :
              /\ calls[w][k].ret
              /\ \E x, y \in KeySet :
                    /\ x = SubSeq(pfx[w].query, 1, calls[w][k].length)
                    /\ IsPrefix(x, y)
                    /\ Len(x) < Len(y)

(***************************************************************************)
(* Termination of the loader.                                              *)
(***************************************************************************)

\* C26: a call of assign(block, size) that has reached its loop for child
\* chunks returns, whatever size the child chunks declare.
C26_LoaderTerminates ==
    \A w \in Traits : (ld[w].stage = "loop") ~> (ld[w].stage = "done")

(***************************************************************************)
(* Termination of build().                                                 *)
(***************************************************************************)

\* The length of the longest key of the records.
LongestKey == Largest({Len(recs[i].key) : i \in 1..Len(recs)})

\* The exceptions of the builder.
BuilderExceptions ==
    {ExcUnsorted, ExcDuplicated, ExcLeaves, ExcChildren}

\* C27: every build() ends, normally or with an exception of the builder;
\* arrange is never nested deeper than the length of the longest key plus
\* one; every search for a base has ended with a base, and the indices it
\* tried increase strictly.
C27_BuildTerminates ==
    \A w \in Traits :
        nbuilds > 0 =>
            /\ b[w].exc \in {""} \cup BuilderExceptions
            /\ b[w].exc = "" => b[w].hist.depth = 0
            /\ b[w].hist.max_depth >= 1
            /\ b[w].hist.max_depth <= LongestKey + 1
            /\ \A n \in 1..Len(b[w].hist.searches) :
                  Bind(b[w].hist.searches[n], LAMBDA s :
                      /\ Len(s.trials) >= 1
                      /\ \A k \in 1..(Len(s.trials) - 1) :
                            s.trials[k] < s.trials[k + 1]
                      /\ s.base = s.trials[Len(s.trials)] - s.offsets[1]
                      /\ s.base >= INITIAL_INDEX)

\* A build of keys of the greatest length in which arrange was nested as
\* deep as it can be and a search for a base took three trials.
C27_Witness ==
    /\ nbuilds > 0
    /\ LongestKey = MaxKeyLen
    /\ \A w \in Traits :
          /\ b[w].hist.max_depth = LongestKey + 1
          /\ \E n \in 1..Len(b[w].hist.searches) :
                Len(b[w].hist.searches[n].trials) >= 3

(***************************************************************************)
(* Packing of the 4-byte element.                                          *)
(***************************************************************************)

\* C28: whatever bases between -0x7FFFFF and 0x7FFFFF and checks between
\* 0 and 255 set_base and set_check have stored in a 4-byte element, in
\* whatever order, get_base returns the base stored last, with its sign,
\* and get_check the check stored last; so set_base leaves the check as it
\* was and set_check leaves the base as it was.
C28_Packing4 ==
    /\ doublearray4_get_base(e4.elem) = e4.base
    /\ doublearray4_get_check(e4.elem) = e4.check

\* The most negative base and the largest check are stored, the check
\* after the base.
C28_Witness ==
    /\ e4.op = "set_check"
    /\ e4.base = 0 - MaxBase4
    /\ e4.check = 255

(***************************************************************************)
(* The root of the double array.                                           *)
(***************************************************************************)

\* C29: after every successful build the root slot INITIAL_INDEX holds a
\* positive base, also when the record set has exactly one record.
C29_RootInternal ==
    Built => \A w \in Traits :
                builder_get_base(w, b[w], INITIAL_INDEX) > 0

(***************************************************************************)
(* Copies of prefix cursors.                                               *)
(***************************************************************************)

\* C30: a prefix cursor made by copy construction has the query, the
\* length, the value and the cur of its source and reports the same
\* remaining hits; the cursor that prefix(q) returns has length 0 and cur
\* INITIAL_INDEX.
C30_CopyPreservesState ==
    \A w \in Traits :
        rho[w].made =>
            /\ rho[w].copy = rho[w].source
            /\ cursor_hits(w, vtype, t[w], rho[w].copy, MaxNext)
                  = cursor_hits(w, vtype, t[w], rho[w].source, MaxNext)
            /\ ~rho[w].explicit =>
                  rho[w].copy.length = 0 /\ rho[w].copy.cur = INITIAL_INDEX

====
